---- MODULE Spec2Model ----
(***************************************************************************)
(* Hyperplane generation and the lazy-constraint callback of SHOT:         *)
(* the ECP point selector (TaskSelectHyperplanePointsSolution::run) and    *)
(* GurobiCallback (callback, addLazyConstraint, createHyperplane).         *)
(* Real values are modelled by small integers; +-infinity and Gurobi's     *)
(* 1e100 are values outside the range of the objective values.             *)
(***************************************************************************)
EXTENDS Integers, Sequences, FiniteSets, TLC

\* ------------------------------------------------------------- bounds
\* number of nonlinear constraints of the problem
NumConstraints == 2
\* longest list of solution points handed to the point selector
MaxPoints == 2
\* setting Algorithm/MaxHyperplanesPerIteration
MaxHyperplanesPerIteration == 2

\* largest objective value the solver reports
MaxObj == 2
\* setting Termination/IterationLimit
IterationLimit == 2
\* setting Dual/Relaxation.MaxLazyConstraints
RelaxationMaxLazyConstraints == 1
\* setting Termination/ConstraintTolerance
ConstraintTolerance == 0
\* setting Termination/ObjectiveGap.Absolute
AbsoluteGapTolerance == 0
\* setting Termination/ObjectiveGap.Relative is 1 / RelativeGapInverse
RelativeGapInverse == 2
\* longest integerCutWaitingList met by an integer-feasible-solution event
MaxIntegerCuts == 1
\* setting Dual/MIP.CutOffTolerance
CutOffTolerance == 0
\* largest node count the solver reports
MaxNodeCount == 2
\* the largest maxIterations given to findZero
MaxLineIterations == 3
MaxThreadCalls == 2
MaxThreadCuts == 1
MaxCoefficient == 1
MaxCutOffTolerance == 1
\* rows added to a MIPSolverCbc object after the problem's own
MaxAddedRows == 3
\* calls of repairInfeasibility
MaxRepairCalls == 1
\* variables of the problem given to a MIPSolverCbc object
NumCbcVariables == 2
\* number of calls made on a MIPSolverCbc object
MaxCbcCalls == 3
\* largest constant of a cut given to MIPSolverCbc
MaxCutConstant == 1

ConstraintIds == 1..NumConstraints
\* normalized constraint deviations: in the interior, at the constraint
\* tolerance, above it
DevValues == {-1, ConstraintTolerance, ConstraintTolerance + 1}
\* objective values; GRB_INFINITY (1e100) and SHOT_DBL_MAX lie above them
ObjValues == 0..MaxObj
GRB_INFINITY == MaxObj + 1
SHOT_DBL_MAX == MaxObj + 2

\* ------------------------------------------------------------- state
VARIABLES
    solPoints,              \* the argument of the point selector's run
    iterIsMILP,             \* currIter->isMILP() of the selector's iteration
    selPc,                  \* "call" before run(solPoints), "done" after
    hyperplaneWaitingList,  \* the hyperplane waiting list
    isMinimization,         \* the objective's direction
    cutStrategy,            \* setting Dual/CutStrategy: "ESH" or "ECP"
    classification,         \* the objective function's classification
    taskObjectiveLinesearch,\* taskSelectHPPtsByObjectiveLinesearch is constructed
    useIntegerCuts,         \* setting Dual/HyperplaneCuts.UseIntegerCuts
    usePrimalSearch,        \* the primal line search or the fixed-NLP strategy is on
    solverFaults,           \* term evaluations and addLazy calls can fail
    profile,                \* what the solver reports: "bounds" or "cuts"
    dualBound,              \* env->results->getDualBound()
    primalBound,            \* env->results->getPrimalBound()
    iterations,             \* the iteration ledger; the last one is current
    abortRequested,         \* abort() has been called in this search
    lastUpdatedPrimal,      \* GurobiCallback::lastUpdatedPrimal
    cutoff,                 \* the solver's GRB_DoubleParam_Cutoff
    generatedHyperplanes,   \* MIPSolver->generatedHyperplanes, the ledger of cuts
    lastExploredNodes,      \* GurobiCallback::lastExploredNodes
    lastOpenNodes,          \* GurobiCallback::lastOpenNodes
    numberOfExploredNodes,  \* env->solutionStatistics.numberOfExploredNodes
    cbc,                    \* the MIPSolverCbc object: the rows of osiInterface
                            \* and what its calls returned
    search,                 \* the line search: the arguments of findZero, its
                            \* bracket and what it returns
    threads                 \* the solver threads inside addLazyConstraint:
                            \* their positions and what they converted

selVars == <<solPoints, iterIsMILP, selPc>>
cfgVars == <<isMinimization, cutStrategy, classification, taskObjectiveLinesearch,
             useIntegerCuts, usePrimalSearch, solverFaults, profile>>
envVars == <<dualBound, primalBound, iterations, abortRequested,
             lastUpdatedPrimal, cutoff, generatedHyperplanes,
             lastExploredNodes, lastOpenNodes, numberOfExploredNodes>>

vars == <<selVars, hyperplaneWaitingList, cfgVars, envVars, cbc, search, threads>>

\* ------------------------------------------------------------- helpers
Min2(a, b) == IF a <= b THEN a ELSE b

\* the sequences over S of length at most n
SeqsUpTo(S, n) == UNION {[1..k -> S] : k \in 0..n}

\* An ordered list of PairIndexValue (idx, value): one entry for each
\* constraint of a subset, in index order.
RECURSIVE PairList(_, _)
PairList(f, ids) ==
    IF ids = {} THEN <<>>
    ELSE LET m == CHOOSE x \in ids : \A y \in ids : x <= y
         IN  <<[idx |-> m, value |-> f[m]]>> \o PairList(f, ids \ {m})

DevLists ==
    UNION {{PairList(f, ids) : f \in [ids -> DevValues]} : ids \in SUBSET ConstraintIds}

\* The lists of solution points given to the selector: the i-th point has
\* coordinates i (or, reversed, n+1-i) and getMostDeviatingConstraints
\* returns devs[i] for it.
PointList(devs, reversed) ==
    [i \in 1..Len(devs) |->
        [point   |-> IF reversed THEN Len(devs) + 1 - i ELSE i,
         mostDev |-> devs[i]]]

\* ------------------------------------------------- the ECP point selector
getMostDeviatingConstraints(solPoint) == solPoint.mostDev

HyperplaneSource(i, isMILP) ==
    IF i = 1 /\ isMILP THEN "MIPOptimalSolutionPoint"
    ELSE IF isMILP THEN "MIPSolutionPoolSolutionPoint"
    ELSE "LPRelaxedSolutionPoint"

NewHyperplane(solPts, i, j, isMILP) ==
    [sourceConstraintIndex |-> getMostDeviatingConstraints(solPts[i])[j].idx,
     generatedPoint        |-> solPts[i].point,
     source                |-> HyperplaneSource(i, isMILP)]

\* the cap test of line 41, and a variant that stops one hyperplane late
CapReachedLate(addedHyperplanes) == addedHyperplanes > MaxHyperplanesPerIteration

CapReached(addedHyperplanes) == addedHyperplanes >= MaxHyperplanesPerIteration

\* a variant of the loops that skips a constraint of value zero too
RECURSIVE RunLoopSkipsZero(_, _, _, _, _, _)
RunLoopSkipsZero(solPts, isMILP, i, j, addedHyperplanes, waiting) ==
    IF i > Len(solPts) THEN waiting
    ELSE IF j > Len(getMostDeviatingConstraints(solPts[i]))
         THEN RunLoopSkipsZero(solPts, isMILP, i + 1, 1, addedHyperplanes, waiting)
    ELSE IF CapReached(addedHyperplanes) THEN waiting
    ELSE IF getMostDeviatingConstraints(solPts[i])[j].value <= 0
         THEN RunLoopSkipsZero(solPts, isMILP, i, j + 1, addedHyperplanes, waiting)
    ELSE RunLoopSkipsZero(solPts, isMILP, i, j + 1, addedHyperplanes + 1,
                          Append(waiting, NewHyperplane(solPts, i, j, isMILP)))

\* the two loops of run, from point i and constraint j on, with
\* addedHyperplanes hyperplanes added so far; the value is the waiting list
RECURSIVE RunLoop(_, _, _, _, _, _)
RunLoop(solPts, isMILP, i, j, addedHyperplanes, waiting) ==
    IF i > Len(solPts) THEN waiting
    ELSE IF j > Len(getMostDeviatingConstraints(solPts[i]))
         THEN RunLoop(solPts, isMILP, i + 1, 1, addedHyperplanes, waiting)
    ELSE IF CapReached(addedHyperplanes) THEN waiting
    ELSE IF getMostDeviatingConstraints(solPts[i])[j].value < 0
         THEN RunLoop(solPts, isMILP, i, j + 1, addedHyperplanes, waiting)
    ELSE RunLoop(solPts, isMILP, i, j + 1, addedHyperplanes + 1,
                 Append(waiting, NewHyperplane(solPts, i, j, isMILP)))

\* TaskSelectHyperplanePointsSolution::run(solPoints)
run(solPts, isMILP, waiting) == RunLoop(solPts, isMILP, 1, 1, 0, waiting)

\* ------------------------------------------------- the bound ledger
Abs(x) == IF x < 0 THEN -x ELSE x

IsFinite(x) == -GRB_INFINITY < x /\ x < GRB_INFINITY

\* The state the callback works on, as one record; its field cb is the
\* account of what one invocation did (see NewCb), which is not kept.
Env ==
    [dualBound |-> dualBound, primalBound |-> primalBound,
     iterations |-> iterations,
     hyperplaneWaitingList |-> hyperplaneWaitingList,
     abortRequested |-> abortRequested,
     lastUpdatedPrimal |-> lastUpdatedPrimal, cutoff |-> cutoff,
     generatedHyperplanes |-> generatedHyperplanes,
     lastExploredNodes |-> lastExploredNodes, lastOpenNodes |-> lastOpenNodes,
     numberOfExploredNodes |-> numberOfExploredNodes, cb |-> <<>>]

\* DualSolver::addDualSolutionCandidate: the dual bound is replaced only by
\* a strictly better one.
addDualSolutionCandidate(s, objValue) ==
    IF (isMinimization /\ objValue > s.dualBound)
       \/ (~isMinimization /\ objValue < s.dualBound)
    THEN [s EXCEPT !.dualBound = objValue]
    ELSE s

\* a ledger that records the last feasible candidate, better or not
addPrimalSolutionCandidateLast(s, pt) ==
    IF pt.maxDeviation <= ConstraintTolerance
    THEN [s EXCEPT !.primalBound = pt.objectiveValue]
    ELSE s

\* PrimalSolver::addPrimalSolutionCandidate: the primal bound is the
\* objective value of the best known feasible solution; it is replaced only
\* by a strictly better one.
addPrimalSolutionCandidate(s, pt) ==
    IF /\ pt.maxDeviation <= ConstraintTolerance
       /\ \/ (isMinimization /\ pt.objectiveValue < s.primalBound)
          \/ (~isMinimization /\ pt.objectiveValue > s.primalBound)
    THEN [s EXCEPT !.primalBound = pt.objectiveValue]
    ELSE s

isAbsoluteObjectiveGapToleranceMet(s) ==
    /\ IsFinite(s.dualBound) /\ IsFinite(s.primalBound)
    /\ Abs(s.primalBound - s.dualBound) <= AbsoluteGapTolerance

\* |primal - dual| / max(|primal|, eps) <= 1 / RelativeGapInverse
isRelativeObjectiveGapToleranceMet(s) ==
    /\ IsFinite(s.dualBound) /\ IsFinite(s.primalBound)
    /\ RelativeGapInverse * Abs(s.primalBound - s.dualBound) <= Abs(s.primalBound)

\* ------------------------------------------------- the iteration ledger
getCurrentIteration(s) == s.iterations[Len(s.iterations)]

FirstIteration ==
    [isSolved |-> FALSE, numHyperplanesAdded |-> 0, totNumHyperplanes |-> 0,
     relaxedLazyHyperplanesAdded |-> 0,
     numberOfExploredNodes |-> 0, numberOfOpenNodes |-> 0]

\* Results::createIteration: a new, open iteration becomes the current one;
\* the cumulative hyperplane count is carried over.
createIteration(s) ==
    [s EXCEPT !.iterations =
        Append(@, [FirstIteration EXCEPT
                     !.totNumHyperplanes = getCurrentIteration(s).totNumHyperplanes])]

\* GurobiCallback::checkIterationLimit: iterationNumber is the position in
\* the ledger
checkIterationLimit(s) == Len(s.iterations) >= IterationLimit

\* ------------------------------------------------- the callback
IgnoredEvents == {"POLLING", "PRESOLVE", "SIMPLEX", "MESSAGE", "BARRIER"}
BoundEvents == {"MIP", "MIPSOL", "MIPNODE"}
Classifications == {"Linear", "Quadratic", "Nonlinear"}

ClassRank(c) ==
    CASE c = "Linear" -> 1 [] c = "Quadratic" -> 2
      [] c = "QuadraticConsideredAsNonlinear" -> 3 [] c = "Nonlinear" -> 4

AboveQuadratic(c) == ClassRank(c) > ClassRank("Quadratic")

\* the account of an invocation for the event `where`, as it starts
NewCb(where, s) ==
    [where |-> where,
     aborted |-> FALSE,          \* abort() was called
     checked |-> FALSE,          \* the termination check of line 171 was made
     dualCandidates |-> 0,       \* calls of addDualSolutionCandidate, line 134
     primalCandidates |-> 0,     \* calls of addPrimalSolutionCandidate, line 167
     devEvaluated |-> FALSE,     \* the candidate's deviation was compared
     maxDev |-> 0,
     selectorRuns |-> 0,         \* runs of the point selector
     objPassRuns |-> 0,          \* runs of the objective-linearization pass
     nullTask |-> FALSE,         \* that pass was run through a null pointer
     enqueued |-> 0,             \* hyperplanes put on the waiting list
     lazyAdded |-> <<>>,         \* lazy constraints given to the solver
     generated |-> <<>>,         \* the GeneratedHyperplane values that were built
     injected |-> FALSE]         \* the primal solution was passed as incumbent

abort(s) == [s EXCEPT !.abortRequested = TRUE, !.cb.aborted = TRUE]

\* TaskSelectHyperplanePointsESH::run: as the ECP selector, at the point the
\* line search finds on the boundary (coordinates -p); a feasible point is
\* linearized as it is.
runESH(solPts, isMILP, waiting) ==
    run([i \in 1..Len(solPts) |->
            IF solPts[i].maxDeviation <= 0 THEN solPts[i]
            ELSE [solPts[i] EXCEPT !.point = -solPts[i].point]],
        isMILP, waiting)

\* the strategy's point selector, lines 208-216 and 526-541
SelectPoints(s, solPts) ==
    LET waiting ==
            IF cutStrategy = "ESH"
            THEN runESH(solPts, TRUE, s.hyperplaneWaitingList)
            ELSE run(solPts, TRUE, s.hyperplaneWaitingList)
    IN  [s EXCEPT !.hyperplaneWaitingList = waiting,
                  !.cb.selectorRuns = @ + 1,
                  !.cb.enqueued = @ + Len(waiting) - Len(s.hyperplaneWaitingList)]

\* TaskSelectHyperplanePointsByObjectiveLinesearch::run enqueues objCuts
\* hyperplanes of the objective (constraint index 0)
ObjectiveLinesearch(s, solPts, objCuts) ==
    IF ~taskObjectiveLinesearch
    THEN [s EXCEPT !.cb.objPassRuns = @ + 1, !.cb.nullTask = TRUE]
    ELSE [s EXCEPT
            !.hyperplaneWaitingList =
                @ \o [k \in 1..objCuts |->
                        [sourceConstraintIndex |-> 0,
                         generatedPoint |-> solPts[1].point,
                         source |-> "ObjectiveLinesearch"]],
            !.cb.objPassRuns = @ + 1,
            !.cb.enqueued = @ + objCuts]

\* MIPSolver::createHyperplaneTerms: no value when the gradient cannot be
\* evaluated, else the linear terms; fault names what goes wrong for the
\* hyperplanes of constraint fault.idx
NoFault == [idx |-> -1, kind |-> "ok"]
FaultKinds == {"empty", "nanFirst", "nanLast", "throws"}
Faults == {NoFault} \cup [idx : ConstraintIds, kind : FaultKinds]

FaultOf(hyperplane, fault) ==
    IF hyperplane.sourceConstraintIndex = fault.idx THEN fault.kind ELSE "ok"

createHyperplaneTerms(hyperplane, fault) ==
    LET kind == FaultOf(hyperplane, fault)
    IN  [has   |-> kind # "empty",
         terms |-> CASE kind = "nanFirst" -> <<"NaN", "num">>
                     [] kind = "nanLast"  -> <<"num", "NaN">>
                     [] OTHER             -> <<"num", "num">>]

\* the scan of lines 403-415 for a coefficient that is not a number, and a
\* variant that looks at the first term only
FirstTermIsNumber(terms) == terms = <<>> \/ terms[1] # "NaN"

TermsAreNumbers(terms) == \A i \in 1..Len(terms) : terms[i] # "NaN"

\* variant that counts the hyperplane in the iteration only, not in the
\* cumulative count
createHyperplaneCountedOnce(s, hyperplane, fault) ==
    LET optional == createHyperplaneTerms(hyperplane, fault)
        n == Len(s.iterations)
    IN  IF ~optional.has \/ ~TermsAreNumbers(optional.terms)
           \/ FaultOf(hyperplane, fault) = "throws"
        THEN s
        ELSE [s EXCEPT
                !.cb.lazyAdded =
                    Append(@, [sourceConstraintIndex |-> hyperplane.sourceConstraintIndex,
                               generatedPoint |-> hyperplane.generatedPoint,
                               source |-> hyperplane.source,
                               terms |-> optional.terms]),
                !.cb.generated =
                    Append(@, [generatedConstraintIndex |-> 0,
                               sourceConstraintIndex |-> hyperplane.sourceConstraintIndex,
                               generatedPoint |-> hyperplane.generatedPoint,
                               source |-> hyperplane.source,
                               generatedIter |-> n]),
                !.iterations[n].numHyperplanesAdded = @ + 1]

\* GurobiCallback::createHyperplane
createHyperplane(s, hyperplane, fault) ==
    LET optional == createHyperplaneTerms(hyperplane, fault)
        hyperplaneIsOk == TermsAreNumbers(optional.terms)
        n == Len(s.iterations)
    IN  IF ~optional.has THEN s
        ELSE IF ~hyperplaneIsOk THEN s
        ELSE IF FaultOf(hyperplane, fault) = "throws" THEN s  \* addLazy threw
        ELSE [s EXCEPT
                !.cb.lazyAdded =
                    Append(@, [sourceConstraintIndex |-> hyperplane.sourceConstraintIndex,
                               generatedPoint |-> hyperplane.generatedPoint,
                               source |-> hyperplane.source,
                               terms |-> optional.terms]),
                \* lines 430-439: the value is built with index 0 and dropped,
                \* the push_back to generatedHyperplanes is commented out
                !.cb.generated =
                    Append(@, [generatedConstraintIndex |-> 0,
                               sourceConstraintIndex |-> hyperplane.sourceConstraintIndex,
                               generatedPoint |-> hyperplane.generatedPoint,
                               source |-> hyperplane.source,
                               generatedIter |-> n]),
                !.iterations[n].numHyperplanesAdded = @ + 1,
                !.iterations[n].totNumHyperplanes = @ + 1]

\* a variant of the loop that converts the last hyperplane first
RECURSIVE CreateAllReversed(_, _, _, _)
CreateAllReversed(s, waiting, k, fault) ==
    IF k > Len(waiting) THEN s
    ELSE createHyperplane(CreateAllReversed(s, waiting, k + 1, fault),
                          waiting[k], fault)

\* a variant of the loop that an error of addLazy ends
RECURSIVE CreateAllUntilThrow(_, _, _, _)
CreateAllUntilThrow(s, waiting, k, fault) ==
    IF k > Len(waiting) \/ FaultOf(waiting[k], fault) = "throws" THEN s
    ELSE CreateAllUntilThrow(createHyperplane(s, waiting[k], fault),
                             waiting, k + 1, fault)

\* the loop of lines 550-554 over the waiting list, from position k on
RECURSIVE CreateAll(_, _, _, _)
CreateAll(s, waiting, k, fault) ==
    IF k > Len(waiting) THEN s
    ELSE CreateAll(createHyperplane(s, waiting[k], fault), waiting, k + 1, fault)

\* a variant that runs the objective pass whatever the classification
SelectForLazyAlways(s, candidatePoints, objCuts) ==
    ObjectiveLinesearch(SelectPoints(s, candidatePoints), candidatePoints, objCuts)

\* lines 526-548: the point selector and the objective pass
SelectForLazy(s, candidatePoints, objCuts) ==
    LET s1 == SelectPoints(s, candidatePoints)
    IN  IF AboveQuadratic(classification)
        THEN ObjectiveLinesearch(s1, candidatePoints, objCuts)
        ELSE s1

\* GurobiCallback::addLazyConstraint
addLazyConstraint(s, candidatePoints, objCuts, fault) ==
    LET s1 == SelectForLazy(s, candidatePoints, objCuts)
        s2 == CreateAll(s1, s1.hyperplaneWaitingList, 1, fault)
    IN  [s2 EXCEPT !.hyperplaneWaitingList = <<>>]

\* GurobiCallback::createIntegerCut for each entry of integerCutWaitingList
RECURSIVE CreateIntegerCuts(_, _)
CreateIntegerCuts(s, k) ==
    IF k = 0 THEN s
    ELSE CreateIntegerCuts(
            [s EXCEPT !.cb.lazyAdded =
                          Append(@, [sourceConstraintIndex |-> -1,
                                     generatedPoint |-> 0,
                                     source |-> "IntegerCut",
                                     terms |-> <<>>])],
            k - 1)

\* candidates of the primal searches (line search, fixed NLP), all feasible
RECURSIVE AddPrimalCandidates(_, _)
AddPrimalCandidates(s, values) ==
    IF values = <<>> THEN s
    ELSE AddPrimalCandidates(
            addPrimalSolutionCandidate(
                s, [maxDeviation |-> -1, objectiveValue |-> Head(values)]),
            Tail(values))

\* the condition of lines 171-172, and a variant without the iteration limit
TerminationDetectedByGap(s) ==
    \/ isAbsoluteObjectiveGapToleranceMet(s)
    \/ isRelativeObjectiveGapToleranceMet(s)

TerminationDetected(s) ==
    \/ isAbsoluteObjectiveGapToleranceMet(s)
    \/ isRelativeObjectiveGapToleranceMet(s)
    \/ checkIterationLimit(s)

\* the comparisons of lines 127-128 and of lines 144-145, and a variant of
\* the first that lets a tie pass
BetterOrEqualDual(tmpDualObjBound, dual) ==
    \/ (isMinimization /\ tmpDualObjBound >= dual)
    \/ (~isMinimization /\ tmpDualObjBound <= dual)

BetterDual(tmpDualObjBound, dual) ==
    \/ (isMinimization /\ tmpDualObjBound > dual)
    \/ (~isMinimization /\ tmpDualObjBound < dual)

BetterPrimal(tmpPrimalObjBound, primal) ==
    \/ (isMinimization /\ tmpPrimalObjBound < primal)
    \/ (~isMinimization /\ tmpPrimalObjBound > primal)

\* lines 101-176: the bound updates and the termination check
callbackBounds(s0, where, in) ==
    LET s == [s0 EXCEPT !.cb = NewCb(where, s0)]
    IN  IF where \in IgnoredEvents THEN s
        ELSE
        LET tmpDualObjBound == in.objBnd
            s1 == IF /\ where \in BoundEvents
                     /\ BetterDual(tmpDualObjBound, s.dualBound)
                  THEN [addDualSolutionCandidate(s, tmpDualObjBound)
                            EXCEPT !.cb.dualCandidates = @ + 1]
                  ELSE s
            tmpPrimalObjBound == in.obj
            s2 == IF /\ where = "MIPSOL"
                     /\ tmpPrimalObjBound < GRB_INFINITY
                     /\ BetterPrimal(tmpPrimalObjBound, s1.primalBound)
                  THEN [addPrimalSolutionCandidate(
                            s1, [maxDeviation |-> in.point.maxDeviation,
                                 objectiveValue |-> in.objCalc])
                            EXCEPT !.cb.primalCandidates = @ + 1]
                  ELSE s1
            s3 == [s2 EXCEPT !.cb.checked = TRUE]
        IN  IF TerminationDetected(s3)
            THEN abort(s3)
            ELSE s3

\* variant that runs the point selector also when the count is at the cap
callbackNodeAtCap(s, in) ==
    LET n == Len(s.iterations)
    IN  IF /\ in.nodeOptimal
           /\ getCurrentIteration(s).relaxedLazyHyperplanesAdded
                <= RelaxationMaxLazyConstraints
        THEN LET waitingListSize == Len(s.hyperplaneWaitingList)
                 s1 == SelectPoints(s, <<in.point>>)
             IN  [s1 EXCEPT !.iterations[n].relaxedLazyHyperplanesAdded =
                              @ + (Len(s1.hyperplaneWaitingList) - waitingListSize)]
        ELSE s

\* lines 178-221: a relaxation-node event
callbackNode(s, in) ==
    LET n == Len(s.iterations)
    IN  IF /\ in.nodeOptimal
           /\ getCurrentIteration(s).relaxedLazyHyperplanesAdded
                < RelaxationMaxLazyConstraints
        THEN LET waitingListSize == Len(s.hyperplaneWaitingList)
                 s1 == SelectPoints(s, <<in.point>>)
             IN  [s1 EXCEPT !.iterations[n].relaxedLazyHyperplanesAdded =
                              @ + (Len(s1.hyperplaneWaitingList) - waitingListSize)]
        ELSE s

\* lines 330-379: the incumbent and the cutoff
callbackIncumbent(s) ==
    LET pb == s.primalBound
        s1 == IF \/ (isMinimization /\ s.lastUpdatedPrimal < pb)
                 \/ (~isMinimization /\ pb > pb)
              THEN [s EXCEPT !.cb.injected = TRUE, !.lastUpdatedPrimal = pb]
              ELSE s
    IN  [s1 EXCEPT !.cutoff = IF isMinimization THEN pb + CutOffTolerance
                               ELSE -pb - CutOffTolerance]

\* the test of line 248, and a variant that is strict
StrictlyWithinTolerance(normalizedValue) == normalizedValue < ConstraintTolerance

WithinTolerance(normalizedValue) == normalizedValue <= ConstraintTolerance

\* the test of line 227, and a variant that opens an iteration every time
IterationOpenOrClosed(s) == TRUE

IterationClosed(s) == getCurrentIteration(s).isSolved

\* lines 223-322 and 330-379: an integer-feasible-solution event
callbackSolution(s, in) ==
    LET s1 == IF IterationClosed(s) THEN createIteration(s) ELSE s
        s2 == [s1 EXCEPT !.cb.devEvaluated = TRUE,
                         !.cb.maxDev = in.point.maxDeviation]
    IN  IF WithinTolerance(in.point.maxDeviation) THEN s2
        ELSE
        LET candidatePoints == <<in.point>>
            s3a == addLazyConstraint(s2, candidatePoints, in.objCuts, in.fault)
            \* lines 268-270, on currIter; the counters are those the event
            \* started with, nothing before line 268 writes them
            s3 == [s3a EXCEPT
                     !.iterations[Len(s1.iterations)] =
                         [@ EXCEPT !.numberOfExploredNodes =
                                       lastExploredNodes - numberOfExploredNodes,
                                   !.numberOfOpenNodes = lastOpenNodes],
                     !.numberOfExploredNodes = lastExploredNodes]
            s4 == IF usePrimalSearch THEN AddPrimalCandidates(s3, in.candidates)
                  ELSE s3
            s5 == IF useIntegerCuts THEN CreateIntegerCuts(s4, in.integerCuts)
                  ELSE s4
            s6 == [s5 EXCEPT !.iterations[Len(s5.iterations)].isSolved = TRUE]
        IN  IF \/ isAbsoluteObjectiveGapToleranceMet(s6)
               \/ isRelativeObjectiveGapToleranceMet(s6)
            THEN abort(s6)
            ELSE callbackIncumbent(s6)

\* lines 178-379, reached when the event is not ignored and did not abort
callbackCuts(s, where, in) ==
    CASE where = "MIPNODE" -> callbackNode(s, in)
      [] where = "MIPSOL"  -> callbackSolution(s, in)
      [] where = "MIP"     -> [s EXCEPT !.lastExploredNodes = in.nodcnt,
                                        !.lastOpenNodes = in.nodlft]
      [] OTHER             -> s

\* a variant that returns at once for polling events only
callbackPollingOnly(s, where, in) ==
    IF where = "POLLING" THEN [s EXCEPT !.cb = NewCb(where, s)]
    ELSE LET s1 == callbackBounds(s, "MULTIOBJ", in)
         IN  IF s1.cb.aborted THEN s1 ELSE callbackCuts(s1, where, in)

\* GurobiCallback::callback
callback(s, where, in) ==
    LET s1 == callbackBounds(s, where, in)
    IN  IF where \in IgnoredEvents \/ s1.cb.aborted THEN s1
        ELSE callbackCuts(s1, where, in)

\* ------------------------------------------------- the events' inputs
MaxOf(f) == CHOOSE m \in {f[c] : c \in DOMAIN f} : \A c \in DOMAIN f : f[c] <= m

\* Problem::getMostDeviatingConstraints for a point with the constraint
\* values f: the violated constraints and the most deviating ones
MostDeviating(f) ==
    PairList(f, {c \in DOMAIN f : f[c] >= 0 \/ f[c] = MaxOf(f)})

\* The constraint values of the solution (or node relaxation) the solver
\* holds when it calls back: the first k constraints are at the tolerance or
\* above it, the others hold strictly.
PointValues ==
    {[c \in ConstraintIds |-> IF c <= k THEN v ELSE -1] :
        k \in 0..NumConstraints, v \in {ConstraintTolerance, ConstraintTolerance + 1}}

CallbackPoints ==
    {[point |-> 1, mostDev |-> MostDeviating(f), maxDeviation |-> MaxOf(f)] :
        f \in PointValues}

\* Three profiles of the solver's reports keep the search small: "bounds"
\* varies the objective values over one feasible and one violating point,
\* "cuts" varies the points over one objective value, "nodes" varies the
\* node counts over one objective value.
ObjIn == IF profile = "bounds" THEN ObjValues ELSE {0}

PointsIn ==
    IF profile = "cuts" THEN CallbackPoints
    ELSE {pt \in CallbackPoints :
            \/ pt.maxDeviation < 0
            \/ pt.mostDev = <<[idx |-> 1, value |-> ConstraintTolerance + 1]>>}

DefaultIn ==
    [objBnd |-> 0, obj |-> 0, objCalc |-> 0, nodcnt |-> 0, nodlft |-> 0,
     point |-> [point |-> 1, mostDev |-> <<>>, maxDeviation |-> -1],
     nodeOptimal |-> FALSE, objCuts |-> 0, fault |-> NoFault,
     candidates |-> <<>>, integerCuts |-> 0]

\* what the solver reports with an event: GRB_CB_MIP_OBJBND
\* GRB_CB_MIP_NODCNT and GRB_CB_MIP_NODLFT; the profile "nodes" varies them
\* freely, the profile "solves" as the solver counts within one optimize():
\* never below the count it reported last
NodeCountsIn ==
    IF profile = "nodes" THEN 0..MaxNodeCount
    ELSE IF profile = "solves" THEN lastExploredNodes..MaxNodeCount
    ELSE {0}

\* the open nodes reported are none, or as many as the explored ones
MIPInputs ==
    UNION {{[DefaultIn EXCEPT !.objBnd = b, !.nodcnt = n, !.nodlft = l] :
                b \in ObjIn, l \in {0, n}} : n \in NodeCountsIn}

\* GRB_CB_MIPNODE_OBJBND, GRB_CB_MIPNODE_STATUS and the node relaxation
NodeInputs ==
    {[DefaultIn EXCEPT !.objBnd = b] : b \in ObjIn}
    \cup {[DefaultIn EXCEPT !.objBnd = b, !.nodeOptimal = TRUE, !.point = pt] :
            b \in ObjIn, pt \in PointsIn}

\* objectiveFunction->calculateValue at a solution the solver values o:
\* the same value, or the next one
CalcIn(o) == IF o \in ObjIn THEN {o, o + 1} \cap ObjIn ELSE {0}

\* GRB_CB_MIPSOL_OBJBND, GRB_CB_MIPSOL_OBJ, the solution and its objective
\* value
SolutionReports ==
    UNION {{[DefaultIn EXCEPT !.objBnd = b, !.obj = o, !.objCalc = c, !.point = pt] :
                b \in ObjIn, c \in CalcIn(o), pt \in PointsIn} :
           o \in ObjIn \cup {GRB_INFINITY}}

\* what the cut generation of an integer-feasible-solution event meets: the
\* objective cuts of the line search, a fault of the term evaluation, the
\* candidates of the primal searches, the waiting integer cuts
CutReports(in0) ==
    {[in0 EXCEPT !.objCuts = objCuts, !.fault = fault, !.candidates = cands,
                 !.integerCuts = ic] :
        objCuts \in (IF AboveQuadratic(classification) THEN 0..1 ELSE {0}),
        fault \in (IF solverFaults THEN Faults ELSE {NoFault}),
        cands \in (IF usePrimalSearch THEN SeqsUpTo(ObjIn, 1) ELSE {<<>>}),
        ic \in (IF useIntegerCuts THEN 0..MaxIntegerCuts ELSE {0})}

\* the cut generation is met only by an event that reaches line 263
SolutionInputs ==
    UNION {IF \/ callbackBounds(Env, "MIPSOL", in0).cb.aborted
              \/ WithinTolerance(in0.point.maxDeviation)
           THEN {in0} ELSE CutReports(in0) : in0 \in SolutionReports}

OtherEvents == {"MULTIOBJ"}
Events == IgnoredEvents \cup BoundEvents \cup OtherEvents

Inputs(where) ==
    CASE where = "MIP"     -> MIPInputs
      [] where = "MIPNODE" -> NodeInputs
      [] where = "MIPSOL"  -> SolutionInputs
      [] OTHER             -> {DefaultIn}

Commit(s) ==
    /\ dualBound' = s.dualBound
    /\ primalBound' = s.primalBound
    /\ iterations' = s.iterations
    /\ hyperplaneWaitingList' = s.hyperplaneWaitingList
    /\ abortRequested' = s.abortRequested
    /\ lastUpdatedPrimal' = s.lastUpdatedPrimal
    /\ cutoff' = s.cutoff
    /\ lastExploredNodes' = s.lastExploredNodes
    /\ lastOpenNodes' = s.lastOpenNodes
    /\ numberOfExploredNodes' = s.numberOfExploredNodes
    /\ generatedHyperplanes' = s.generatedHyperplanes
    /\ UNCHANGED <<selVars, cfgVars, cbc, search, threads>>

\* ------------------------------------------------- the callback's searches
\* GurobiCallback::GurobiCallback, for a search that starts with no bounds
\* and one open iteration
InitCallback(prof, minimize, strategy, class, intCuts, primalSearch, faults) ==
    /\ profile = prof
    /\ isMinimization = minimize
    /\ cutStrategy = strategy
    /\ classification = class
    /\ taskObjectiveLinesearch = AboveQuadratic(class)
    /\ useIntegerCuts = intCuts
    /\ usePrimalSearch = primalSearch
    /\ solverFaults = faults
    /\ dualBound = IF minimize THEN -SHOT_DBL_MAX ELSE SHOT_DBL_MAX
    /\ primalBound = IF minimize THEN SHOT_DBL_MAX ELSE -SHOT_DBL_MAX
    /\ lastUpdatedPrimal = IF minimize THEN SHOT_DBL_MAX ELSE -SHOT_DBL_MAX
    /\ iterations = <<FirstIteration>>
    /\ hyperplaneWaitingList = <<>>
    /\ abortRequested = FALSE
    /\ cutoff = GRB_INFINITY
    /\ generatedHyperplanes = <<>>
    /\ lastExploredNodes = 0
    /\ lastOpenNodes = 0
    /\ numberOfExploredNodes = 0

\* a MIPSolverCbc object with an empty model, which no search here uses
NewCbc ==
    [rows |-> <<>>, returned |-> <<>>,
     \* the reformulated problem: its objective and allVariables
     objective |-> [classification |-> "Linear", isDualUnbounded |-> FALSE],
     allVariables |-> <<>>,
     \* osiInterface's column bounds
     colBounds |-> <<>>,
     \* the last call of solveProblem: the status returned, whether an
     \* exception left it, the solves made, whether the unboundedness retry
     \* was made
     status |-> "None", propagated |-> FALSE, solves |-> 0, retried |-> FALSE,
     hasInfeasibilityRepairBeenPerformed |-> FALSE,
     \* numberOfLinearConstraints of the reformulated problem, the rows of
     \* the integer cuts, the cutoff row (no row while not defined), the
     \* ledger env->dualSolver->generatedHyperplanes
     numOrigConstraints |-> 0, integerCuts |-> {},
     cutOffConstraintDefined |-> FALSE, cutOffConstraintIndex |-> -1,
     generatedHyperplanes |-> <<>>,
     repairCalls |-> 0,
     \* the objective as it is stored: objectiveLinearExpression (indices and
     \* elements), coinModel's column objective and objective offset, the
     \* direction, whether finalizeObjective was called, and this->cutOff
     objectiveLinearExpression |-> <<>>,
     colObjective |-> [i \in 1..NumCbcVariables |-> 0],
     objectiveOffset |-> 0,
     isMinimizationProblem |-> TRUE,
     finalized |-> FALSE,
     cutOff |-> SHOT_DBL_MAX,
     \* the row that createIntegerCut added last with its elements (of the
     \* other rows the bounds only are kept), and
     \* env->solutionStatistics.numberOfIntegerCuts
     lastIntegerCut |-> [row |-> -1, elements |-> <<>>],
     numberOfIntegerCuts |-> 0,
     \* the variables: the lists of the solver object and their count, the
     \* columns of coinModel, isProblemDiscrete
     numberOfVariables |-> 0,
     variableTypes |-> <<>>, variableNames |-> <<>>,
     variableLowerBounds |-> <<>>, variableUpperBounds |-> <<>>,
     columns |-> <<>>,
     isProblemDiscrete |-> FALSE]

NoCbc == cbc = NewCbc

\* no line search is made
NoSearch == search = [phase |-> "idle"]

\* no thread is in addLazyConstraint
NoThreads == threads = [mode |-> "idle"]

NoSelector ==
    /\ solPoints = <<>>
    /\ iterIsMILP = TRUE
    /\ selPc = "idle"

\* both directions, with and without the primal searches
InitBounds ==
    /\ NoSelector
    /\ NoCbc
    /\ NoSearch
    /\ NoThreads
    /\ \E minimize \in BOOLEAN, primalSearch \in BOOLEAN :
            InitCallback("bounds", minimize, "ECP", "Linear", FALSE, primalSearch, FALSE)

\* both strategies and every classification; integer cuts with the primal
\* searches
InitCuts ==
    /\ NoSelector
    /\ NoCbc
    /\ NoSearch
    /\ NoThreads
    /\ \/ \E strategy \in {"ESH", "ECP"}, class \in Classifications :
            InitCallback("cuts", TRUE, strategy, class, FALSE, FALSE, FALSE)
       \/ InitCallback("cuts", TRUE, "ECP", "Linear", TRUE, TRUE, FALSE)

\* term evaluations and addLazy calls that fail
InitFaults ==
    /\ NoSelector
    /\ NoCbc
    /\ NoSearch
    /\ NoThreads
    /\ InitCallback("cuts", TRUE, "ECP", "Linear", FALSE, FALSE, TRUE)

\* node counts that vary
InitNodes ==
    /\ NoSelector
    /\ NoCbc
    /\ NoSearch
    /\ NoThreads
    /\ InitCallback("nodes", TRUE, "ECP", "Linear", FALSE, FALSE, FALSE)

Init == InitBounds \/ InitCuts \/ InitFaults \/ InitNodes

CallbackIgnored ==
    \E where \in IgnoredEvents : Commit(callback(Env, where, DefaultIn))

CallbackOther ==
    \E where \in OtherEvents : Commit(callback(Env, where, DefaultIn))

CallbackMIP == \E in \in MIPInputs : Commit(callback(Env, "MIP", in))

CallbackMIPNODE == \E in \in NodeInputs : Commit(callback(Env, "MIPNODE", in))

CallbackMIPSOL == \E in \in SolutionInputs : Commit(callback(Env, "MIPSOL", in))

Next ==
    \/ CallbackIgnored
    \/ CallbackOther
    \/ CallbackMIP
    \/ CallbackMIPNODE
    \/ CallbackMIPSOL

Spec == Init /\ [][Next]_vars

SpecBounds == InitBounds /\ [][Next]_vars

SpecCuts == InitCuts /\ [][Next]_vars

SpecFaults == InitFaults /\ [][Next]_vars

SpecNodes == InitNodes /\ [][Next]_vars

\* ------------------------------------------------- several solveProblem calls
\* node counts that grow within one optimize()
InitSolves ==
    /\ NoSelector
    /\ NoCbc
    /\ NoSearch
    /\ NoThreads
    /\ InitCallback("solves", TRUE, "ECP", "Linear", FALSE, FALSE, FALSE)

\* MIPSolverGurobiLazy::solveProblem is called again, lines 84-86: a new
\* GurobiCallback object is constructed, with its node counts at their
\* initial value and lastUpdatedPrimal at the primal bound, and optimize()
\* starts to count its nodes from zero; env->results and
\* env->solutionStatistics are kept
SolveProblem ==
    /\ lastExploredNodes' = 0
    /\ lastOpenNodes' = 0
    /\ lastUpdatedPrimal' = primalBound
    /\ abortRequested' = FALSE
    /\ UNCHANGED <<dualBound, primalBound, iterations, cutoff,
                   generatedHyperplanes, numberOfExploredNodes>>
    /\ UNCHANGED <<selVars, hyperplaneWaitingList, cfgVars, cbc, search, threads>>

NextSolves == Next \/ SolveProblem

SpecSolves == InitSolves /\ [][NextSolves]_vars

\* ------------------------------------------------- the selector's runs
InitSelector ==
    /\ \E devs \in SeqsUpTo(DevLists, MaxPoints), reversed \in BOOLEAN :
            solPoints = PointList(devs, reversed)
    /\ iterIsMILP \in BOOLEAN
    /\ selPc = "call"
    /\ NoCbc
    /\ NoSearch
    /\ NoThreads
    /\ InitCallback("cuts", TRUE, "ECP", "Linear", FALSE, FALSE, FALSE)

SelectorRun ==
    /\ selPc = "call"
    /\ hyperplaneWaitingList' = run(solPoints, iterIsMILP, hyperplaneWaitingList)
    /\ selPc' = "done"
    /\ UNCHANGED <<solPoints, iterIsMILP, cfgVars, envVars, cbc, search, threads>>

NextSelector == SelectorRun

SpecSelector == InitSelector /\ [][NextSelector]_vars

\* ------------------------------------------------- MIPSolverCbc
\* osiInterface->getInfinity()
OsiInfinity == SHOT_DBL_MAX + 1

\* the constants of the cuts given to addLinearConstraint
CutConstants == 0..MaxCutConstant

\* osiInterface->getNumRows()
getNumRows(c) == Len(c.rows)

\* osiInterface->addRow(cut, lower, upper, name)
addRow(c, lower, upper) == [c EXCEPT !.rows = Append(@, [lower |-> lower, upper |-> upper])]

\* MIPSolverCbc::addLinearConstraint: the row is added unless the solver
\* throws, which is caught; the value returned is the index of the last row
addLinearConstraint(c, constant, isGreaterThan, throws) ==
    LET c1 == IF throws THEN c
              ELSE IF isGreaterThan THEN addRow(c, -constant, OsiInfinity)
              ELSE addRow(c, -OsiInfinity, -constant)
    IN  [c1 EXCEPT !.returned = Append(@, getNumRows(c1) - 1)]

\* a Cbc model that holds the rows of the problem, before any cut
InitCbc ==
    /\ NoSelector
    /\ NoSearch
    /\ NoThreads
    /\ InitCallback("cuts", TRUE, "ECP", "Linear", FALSE, FALSE, FALSE)
    /\ \E n \in 0..1 :
        cbc = [NewCbc EXCEPT !.rows = [i \in 1..n |-> [lower |-> -OsiInfinity, upper |-> 0]]]

CbcAddLinearConstraint ==
    /\ Len(cbc.returned) < MaxCbcCalls
    /\ \E constant \in CutConstants, isGreaterThan \in BOOLEAN, throws \in BOOLEAN :
            cbc' = addLinearConstraint(cbc, constant, isGreaterThan, throws)
    /\ UNCHANGED <<selVars, hyperplaneWaitingList, cfgVars, envVars, search, threads>>

NextCbc == CbcAddLinearConstraint

SpecCbc == InitCbc /\ [][NextCbc]_vars

\* ------------------------------------------------- MIPSolverCbc::solveProblem
\* getUnboundedVariableBoundValue(), 1e+50
UnboundedVariableBoundValue == 8
\* the divisor 10e30 of the unboundedness retry
UnboundedRetryDivisor == 2
\* the bound 1000000000.0 of the infeasibility retry
InfeasibleRetryBound == 1

CbcClassifications ==
    {"Linear", "Quadratic", "QuadraticConsideredAsNonlinear", "Nonlinear"}

\* E_ProblemSolutionStatus values of getSolutionStatus(), and a solve that
\* raises an exception
SolutionStatuses == {"Optimal", "Infeasible", "Unbounded", "Error"}
SolveOutcomes == SolutionStatuses \cup {"throws"}
OutcomeLists == [1..3 -> SolveOutcomes]

\* a variable of the reformulated problem, bounded or unbounded
BoundedVariable == [lowerBound |-> 0, upperBound |-> 1, isDualUnbounded |-> FALSE]
UnboundedVariable ==
    [lowerBound |-> -UnboundedVariableBoundValue,
     upperBound |-> UnboundedVariableBoundValue, isDualUnbounded |-> TRUE]

\* the dual problem has an auxiliary objective variable, the last column,
\* when the objective is not linear or quadratic
hasAuxilliaryObjectiveVariable(c) ==
    ClassRank(c.objective.classification) >= ClassRank("QuadraticConsideredAsNonlinear")

getDualAuxiliaryObjectiveVariableIndex(c) == Len(c.allVariables) + 1

\* osiInterface->setColBounds
setColBounds(c, varIndex, lowerBound, upperBound) ==
    [c EXCEPT !.colBounds[varIndex] = <<lowerBound, upperBound>>]

\* MIPSolverCbc::updateVariableBound
updateVariableBound(c, varIndex, lowerBound, upperBound) ==
    IF c.colBounds[varIndex] = <<lowerBound, upperBound>> THEN c
    ELSE setColBounds(c, varIndex, lowerBound, upperBound)

\* lines 492-500: the unbounded variables are tightened, from variable k on
RECURSIVE TightenUnbounded(_, _)
TightenUnbounded(c, k) ==
    IF k > Len(c.allVariables) THEN c
    ELSE TightenUnbounded(
            IF c.allVariables[k].isDualUnbounded
            THEN updateVariableBound(
                    c, k, -(UnboundedVariableBoundValue \div UnboundedRetryDivisor),
                    UnboundedVariableBoundValue \div UnboundedRetryDivisor)
            ELSE c,
            k + 1)

\* lines 529-533: the unbounded variables get the bounds of the problem
RECURSIVE RestoreUnbounded(_, _)
RestoreUnbounded(c, k) ==
    IF k > Len(c.allVariables) THEN c
    ELSE RestoreUnbounded(
            IF c.allVariables[k].isDualUnbounded
            THEN updateVariableBound(c, k, c.allVariables[k].lowerBound,
                                     c.allVariables[k].upperBound)
            ELSE c,
            k + 1)

\* lines 411-448: the first solve, inside the try block
FirstSolve(c, outcome) ==
    [c EXCEPT !.status = IF outcome = "throws" THEN "Error" ELSE outcome,
              !.solves = 1]

\* a re-solve of lines 457-471 or 513-527, outside of any try block
Resolve(c, outcome) ==
    IF outcome = "throws" THEN [c EXCEPT !.propagated = TRUE]
    ELSE [c EXCEPT !.status = outcome, !.solves = @ + 1]

\* lines 450-476: the retry of an infeasible problem
RetryInfeasible(c, outcome) ==
    IF /\ c.status = "Infeasible"
       /\ c.objective.classification = "QuadraticConsideredAsNonlinear"
    THEN LET aux == getDualAuxiliaryObjectiveVariableIndex(c)
             r == Resolve(setColBounds(c, aux, -InfeasibleRetryBound,
                                       InfeasibleRetryBound), outcome)
         IN  IF outcome = "throws" THEN r
             ELSE setColBounds(r, aux, -UnboundedVariableBoundValue,
                               UnboundedVariableBoundValue)
    ELSE c

\* lines 479-537: the retry of an unbounded problem
RetryUnbounded(c, outcome) ==
    IF c.status # "Unbounded" THEN c
    ELSE
    LET class == c.objective.classification
        byVariables == class \in {"Linear", "Quadratic"} /\ c.objective.isDualUnbounded
        byAuxiliary == ~byVariables /\ hasAuxilliaryObjectiveVariable(c)
        variableBoundsUpdated ==
            \/ byVariables /\ \E k \in 1..Len(c.allVariables) :
                                 c.allVariables[k].isDualUnbounded
            \/ byAuxiliary
        tightened ==
            IF byVariables THEN TightenUnbounded(c, 1)
            ELSE IF byAuxiliary
            THEN updateVariableBound(
                    c, getDualAuxiliaryObjectiveVariableIndex(c),
                    -(UnboundedVariableBoundValue \div UnboundedRetryDivisor),
                    UnboundedVariableBoundValue \div UnboundedRetryDivisor)
            ELSE c
    IN  IF ~variableBoundsUpdated THEN c
        ELSE IF outcome = "throws"
        THEN [Resolve(tightened, outcome) EXCEPT !.retried = TRUE]
        ELSE [RestoreUnbounded(Resolve(tightened, outcome), 1) EXCEPT
                 !.retried = TRUE,
                 !.hasInfeasibilityRepairBeenPerformed = TRUE]

\* MIPSolverCbc::solveProblem; outcomes are those of its solves in order
solveProblem(c, outcomes) ==
    LET c1 == FirstSolve([c EXCEPT !.propagated = FALSE, !.retried = FALSE],
                         outcomes[1])
        c2 == RetryInfeasible(c1, outcomes[2])
    IN  IF c2.propagated THEN c2
        ELSE RetryUnbounded(c2, outcomes[c2.solves + 1])

\* the dual problems: an objective of a classification, one or two
\* variables, bounded or not; the objective is unbounded only if a variable is
CbcProblems ==
    {[NewCbc EXCEPT
        !.objective = [classification |-> class, isDualUnbounded |-> u],
        !.allVariables = vs,
        !.colBounds =
            [k \in 1..Len(vs) |-> <<vs[k].lowerBound, vs[k].upperBound>>]
            \o (IF ClassRank(class) >= ClassRank("QuadraticConsideredAsNonlinear")
                THEN <<(<<-UnboundedVariableBoundValue,
                          UnboundedVariableBoundValue>>)>>
                ELSE <<>>)] :
        class \in CbcClassifications, u \in BOOLEAN,
        vs \in {v \in SeqsUpTo({BoundedVariable, UnboundedVariable}, NumCbcVariables) :
                  v # <<>>}}

InitCbcSolve ==
    /\ NoSelector
    /\ NoSearch
    /\ NoThreads
    /\ InitCallback("cuts", TRUE, "ECP", "Linear", FALSE, FALSE, FALSE)
    /\ cbc \in {c \in CbcProblems :
                  c.objective.isDualUnbounded =>
                    \E k \in 1..Len(c.allVariables) :
                        c.allVariables[k].isDualUnbounded}

CbcSolveProblem ==
    /\ \E outcomes \in OutcomeLists : cbc' = solveProblem(cbc, outcomes)
    /\ UNCHANGED <<selVars, hyperplaneWaitingList, cfgVars, envVars, search, threads>>

NextCbcSolve == CbcSolveProblem

SpecCbcSolve == InitCbcSolve /\ [][NextCbcSolve]_vars

\* ------------------------------------------------- MIPSolverCbc::repairInfeasibility
\* the slack values of a solution of the relaxed problem
SlackValues == {0, 2}
SlackLists == [1..MaxAddedRows -> SlackValues]

\* the row with the (0-based) index i
getRowUpper(c, i) == c.rows[i + 1].upper

\* osiInterface->setRowUpper
setRowUpper(c, i, value) == [c EXCEPT !.rows[i + 1].upper = value]

\* the dual solver adds a hyperplane: the row, then its record in the ledger
\* with the row's identifier
addHyperplane(c, constant, isSourceConvex) ==
    LET c1 == addLinearConstraint(c, constant, FALSE, FALSE)
    IN  [c1 EXCEPT !.generatedHyperplanes =
            Append(@, [generatedConstraintIndex |-> c1.returned[Len(c1.returned)],
                       isSourceConvex |-> isSourceConvex])]

\* variant that gives the variables of both index sets the element 1
IntegerCutElementsAllOnes(binaryIndexesOnes, binaryIndexesZeroes) ==
    [I \in binaryIndexesOnes \cup binaryIndexesZeroes |-> 1]

\* lines 890-898: the elements of the cut, 1 for a variable at one and -1
\* for a variable at zero
IntegerCutElements(binaryIndexesOnes, binaryIndexesZeroes) ==
    [I \in binaryIndexesOnes \cup binaryIndexesZeroes |->
        IF I \in binaryIndexesOnes THEN 1 ELSE -1]

\* MIPSolverCbc::createIntegerCut; throws: addRow raises an error, which is
\* caught
createIntegerCut(c, binaryIndexesOnes, binaryIndexesZeroes, throws) ==
    IF throws THEN [cbc |-> c, returned |-> FALSE]
    ELSE LET c1 == addRow(c, -OsiInfinity, Cardinality(binaryIndexesOnes) - 1)
         IN  [cbc |-> [c1 EXCEPT
                        !.lastIntegerCut =
                            [row |-> getNumRows(c1) - 1,
                             elements |-> IntegerCutElements(
                                            binaryIndexesOnes, binaryIndexesZeroes)],
                        !.integerCuts = @ \cup {getNumRows(c1) - 1},
                        !.numberOfIntegerCuts = @ + 1],
              returned |-> TRUE]

\* MIPSolverCbc::setCutOffAsConstraint
setCutOffAsConstraint(c, cutOff) ==
    IF cutOff = SHOT_DBL_MAX \/ cutOff = -SHOT_DBL_MAX THEN c
    ELSE IF ~c.cutOffConstraintDefined
    THEN LET c1 == addRow(c, -OsiInfinity, IF isMinimization THEN cutOff ELSE -cutOff)
         IN  [c1 EXCEPT !.cutOffConstraintDefined = TRUE,
                        !.cutOffConstraintIndex = getNumRows(c1) - 1]
    ELSE setRowUpper(c, c.cutOffConstraintIndex,
                     IF isMinimization THEN cutOff ELSE -cutOff)

\* lines 561-582: the rows from i on that are to be relaxed; at() throws
\* when hyperplaneCounter is past the ledger
RECURSIVE SelectRepairConstraints(_, _, _, _)
SelectRepairConstraints(c, i, hyperplaneCounter, repairConstraints) ==
    IF i >= getNumRows(c)
    THEN [threw |-> FALSE, repairConstraints |-> repairConstraints]
    ELSE IF i = c.cutOffConstraintIndex
    THEN SelectRepairConstraints(c, i + 1, hyperplaneCounter + 1, repairConstraints)
    ELSE IF i \in c.integerCuts
    THEN SelectRepairConstraints(c, i + 1, hyperplaneCounter, repairConstraints)
    ELSE IF hyperplaneCounter >= Len(c.generatedHyperplanes)
    THEN [threw |-> TRUE, repairConstraints |-> repairConstraints]
    ELSE IF c.generatedHyperplanes[hyperplaneCounter + 1].isSourceConvex
    THEN SelectRepairConstraints(c, i + 1, hyperplaneCounter + 1, repairConstraints)
    ELSE SelectRepairConstraints(c, i + 1, hyperplaneCounter,
                                 Append(repairConstraints, i))

\* lines 670-684: the right-hand sides of the rows with a slack are raised,
\* from the repair constraint i (0-based) on
RECURSIVE ApplyRepairs(_, _, _, _)
ApplyRepairs(c, repairConstraints, slack, i) ==
    IF i >= Len(repairConstraints) THEN c
    ELSE IF slack[i + 1] = 0 THEN ApplyRepairs(c, repairConstraints, slack, i + 1)
    ELSE LET oldRHS == getRowUpper(c, c.numOrigConstraints + i)
         IN  ApplyRepairs(
                setRowUpper(c, repairConstraints[i + 1],
                            oldRHS + (3 * slack[i + 1]) \div 2),
                repairConstraints, slack, i + 1)

\* the test of line 661, and a variant that takes an infeasible relaxed
\* problem as repaired
RepairSolvedOrInfeasible(status) == status \in {"Optimal", "Infeasible"}

RepairSolved(status) == status = "Optimal"

\* MIPSolverCbc::repairInfeasibility: outcome is that of the solve of the
\* relaxed problem, slack the slack values of its solution
repairInfeasibility(c0, outcome, slack) ==
    LET c == [c0 EXCEPT !.repairCalls = @ + 1]
        failed == [cbc |-> c, returned |-> FALSE, threw |-> FALSE, relaxed |-> <<>>]
    IN  IF Len(c.generatedHyperplanes) = 0 THEN failed
        ELSE
        LET selected == SelectRepairConstraints(c, c.numOrigConstraints, 0, <<>>)
        IN  IF selected.threw THEN [failed EXCEPT !.threw = TRUE]
            ELSE IF outcome = "throws"
            THEN [failed EXCEPT !.threw = TRUE,
                                !.relaxed = selected.repairConstraints]
            ELSE IF ~RepairSolved(outcome)
            THEN [failed EXCEPT !.relaxed = selected.repairConstraints]
            ELSE [cbc |-> ApplyRepairs(c, selected.repairConstraints, slack, 0),
                  returned |-> TRUE, threw |-> FALSE,
                  relaxed |-> selected.repairConstraints]

\* a dual problem with its original rows, before any cut
InitCbcRepair ==
    /\ NoSelector
    /\ NoSearch
    /\ NoThreads
    /\ InitCallback("cuts", TRUE, "ECP", "Linear", FALSE, FALSE, FALSE)
    /\ \E n \in 0..1 :
        cbc = [NewCbc EXCEPT
                 !.rows = [i \in 1..n |-> [lower |-> -OsiInfinity, upper |-> 0]],
                 !.numOrigConstraints = n]

RowsAdded(c) == getNumRows(c) - c.numOrigConstraints

CbcAddHyperplane ==
    /\ RowsAdded(cbc) < MaxAddedRows
    /\ \E constant \in CutConstants, isSourceConvex \in BOOLEAN :
            cbc' = addHyperplane(cbc, constant, isSourceConvex)
    /\ UNCHANGED <<selVars, hyperplaneWaitingList, cfgVars, envVars, search, threads>>

CbcCreateIntegerCut ==
    /\ RowsAdded(cbc) < MaxAddedRows
    /\ cbc' = createIntegerCut(cbc, {1}, {}, FALSE).cbc
    /\ UNCHANGED <<selVars, hyperplaneWaitingList, cfgVars, envVars, search, threads>>

CbcSetCutOffAsConstraint ==
    /\ cbc.cutOffConstraintDefined \/ RowsAdded(cbc) < MaxAddedRows
    /\ \E cutOff \in CutConstants \cup {SHOT_DBL_MAX} :
            cbc' = setCutOffAsConstraint(cbc, cutOff)
    /\ UNCHANGED <<selVars, hyperplaneWaitingList, cfgVars, envVars, search, threads>>

CbcRepairInfeasibility ==
    /\ cbc.repairCalls < MaxRepairCalls
    /\ \E outcome \in SolveOutcomes, slack \in SlackLists :
            cbc' = repairInfeasibility(cbc, outcome, slack).cbc
    /\ UNCHANGED <<selVars, hyperplaneWaitingList, cfgVars, envVars, search, threads>>

NextCbcRepair ==
    \/ CbcAddHyperplane
    \/ CbcCreateIntegerCut
    \/ CbcSetCutOffAsConstraint
    \/ CbcRepairInfeasibility

SpecCbcRepair == InitCbcRepair /\ [][NextCbcRepair]_vars

\* ------------------------------------------------- MIPSolverCbc: the objective
Coefficients == -MaxCoefficient..MaxCoefficient

\* the settings value MIP.CutOff.Tolerance of Dual
CutOffTolerances == 0..MaxCutOffTolerance

SHOT_DBL_MIN == -SHOT_DBL_MAX

\* the values a cutoff is set to: objective values of either sign and the
\* two values that stand for no cutoff
CutOffValues == (-MaxObj..MaxObj) \cup {SHOT_DBL_MAX, SHOT_DBL_MIN}

\* the variables (1-based) that have a term in the objective
ObjectiveIndices(c) ==
    {c.objectiveLinearExpression[k].index : k \in 1..Len(c.objectiveLinearExpression)}

\* MIPSolverCbc::addLinearTermToObjective
addLinearTermToObjective(c, coefficient, variableIndex) ==
    [c EXCEPT !.colObjective[variableIndex] = coefficient,
              !.objectiveLinearExpression =
                    Append(@, [index |-> variableIndex, element |-> coefficient])]

\* variant of finalizeObjective that negates the elements of a maximization
\* objective and keeps the sign of its constant
finalizeObjectiveOffsetKept(c, isMinimize, constant) ==
    IF ~isMinimize
    THEN [c EXCEPT
            !.isMinimizationProblem = FALSE,
            !.objectiveLinearExpression =
                [k \in 1..Len(@) |-> [@[k] EXCEPT !.element = -@]],
            !.objectiveOffset = constant,
            !.finalized = TRUE]
    ELSE [c EXCEPT !.isMinimizationProblem = TRUE,
                   !.objectiveOffset = constant,
                   !.finalized = TRUE]

\* MIPSolverCbc::finalizeObjective: a maximization objective is stored
\* negated, elements, column objective and offset
finalizeObjective(c, isMinimize, constant) ==
    IF ~isMinimize
    THEN LET negated == [k \in 1..Len(c.objectiveLinearExpression) |->
                            [c.objectiveLinearExpression[k] EXCEPT !.element = -@]]
         IN  [c EXCEPT
                !.isMinimizationProblem = FALSE,
                !.objectiveLinearExpression = negated,
                !.colObjective =
                    [i \in 1..NumCbcVariables |->
                        IF \E k \in 1..Len(negated) : negated[k].index = i
                        THEN negated[CHOOSE k \in 1..Len(negated) :
                                        negated[k].index = i].element
                        ELSE @[i]],
                !.objectiveOffset = -constant,
                !.finalized = TRUE]
    ELSE [c EXCEPT !.isMinimizationProblem = TRUE,
                   !.objectiveOffset = constant,
                   !.finalized = TRUE]

\* the sum of factor * element * variableSolution[index] from term k on
RECURSIVE SumTerms(_, _, _, _)
SumTerms(expression, variableSolution, factor, k) ==
    IF k > Len(expression) THEN 0
    ELSE factor * expression[k].element * variableSolution[expression[k].index]
         + SumTerms(expression, variableSolution, factor, k + 1)

\* MIPSolverCbc::getObjectiveValue for a solution that exists: the value is
\* recalculated from the stored objective
getObjectiveValue(c, variableSolution) ==
    LET factor == IF c.isMinimizationProblem THEN 1 ELSE -1
    IN  factor * c.objectiveOffset
        + SumTerms(c.objectiveLinearExpression, variableSolution, factor, 1)

\* MIPSolverCbc::setCutOff
setCutOff(c, cutOff, cutOffTol) ==
    IF cutOff = SHOT_DBL_MAX \/ cutOff = SHOT_DBL_MIN THEN c
    ELSE IF c.isMinimizationProblem
    THEN [c EXCEPT !.cutOff = cutOff + cutOffTol]
    ELSE [c EXCEPT !.cutOff = -1 * (cutOff + cutOffTol)]

\* initializeProblem: an empty model, cutOff = SHOT_DBL_MAX
InitCbcObjective ==
    /\ NoSelector
    /\ NoSearch
    /\ NoThreads
    /\ InitCallback("cuts", TRUE, "ECP", "Linear", FALSE, FALSE, FALSE)
    /\ cbc = NewCbc

\* the objective's terms are added one variable at a time, each variable
\* once, before the objective is finalized
CbcAddLinearTermToObjective ==
    /\ ~cbc.finalized
    /\ \E coefficient \in Coefficients,
          variableIndex \in (1..NumCbcVariables) \ ObjectiveIndices(cbc) :
            cbc' = addLinearTermToObjective(cbc, coefficient, variableIndex)
    /\ UNCHANGED <<selVars, hyperplaneWaitingList, cfgVars, envVars, search, threads>>

CbcFinalizeObjective ==
    /\ ~cbc.finalized
    /\ \E isMinimize \in BOOLEAN, constant \in Coefficients :
            cbc' = finalizeObjective(cbc, isMinimize, constant)
    /\ UNCHANGED <<selVars, hyperplaneWaitingList, cfgVars, envVars, search, threads>>

\* the cutoff is set during the search, when the objective is final
CbcSetCutOff ==
    /\ cbc.finalized
    /\ \E cutOff \in CutOffValues, cutOffTol \in CutOffTolerances :
            cbc' = setCutOff(cbc, cutOff, cutOffTol)
    /\ UNCHANGED <<selVars, hyperplaneWaitingList, cfgVars, envVars, search, threads>>

NextCbcObjective ==
    \/ CbcAddLinearTermToObjective
    \/ CbcFinalizeObjective
    \/ CbcSetCutOff

SpecCbcObjective == InitCbcObjective /\ [][NextCbcObjective]_vars

\* ------------------------------------------------- MIPSolverCbc: integer cuts
\* the index sets of an integer cut: the binary variables at one and those
\* at zero in a solution
IntegerCutIndexes ==
    {p \in (SUBSET (1..NumCbcVariables)) \X (SUBSET (1..NumCbcVariables)) :
        p[1] \cap p[2] = {}}

CbcCreateIntegerCutOf ==
    /\ RowsAdded(cbc) < MaxAddedRows
    /\ \E p \in IntegerCutIndexes, throws \in BOOLEAN :
            cbc' = createIntegerCut(cbc, p[1], p[2], throws).cbc
    /\ UNCHANGED <<selVars, hyperplaneWaitingList, cfgVars, envVars, search, threads>>

NextCbcIntegerCut == CbcCreateIntegerCutOf

SpecCbcIntegerCut == InitCbcObjective /\ [][NextCbcIntegerCut]_vars

\* ------------------------------------------------- MIPSolverCbc::addVariable
VariableTypes == {"Real", "Integer", "Binary", "Semicontinuous"}

\* the bounds of a variable of the problem: a value within the unbounded
\* bound value and one beyond it on either side, the lower one not above the
\* upper one
VariableBoundValues ==
    {-(UnboundedVariableBoundValue + 1), 0, UnboundedVariableBoundValue + 1}

VariableBoundPairs ==
    {p \in VariableBoundValues \X VariableBoundValues : p[1] <= p[2]}

\* where a call of addVariable raises an exception of coinModel, if it does
AddVariableFaults == {"none", "setColumnBounds", "setColName", "setInteger"}

\* coinModel keeps a column for an index: a new one, or the one it has
SetColumn(columns, index, column) ==
    IF index + 1 <= Len(columns) THEN [columns EXCEPT ![index + 1] = column]
    ELSE Append(columns, column)

\* MIPSolverCbc::addVariable
addVariable(c, name, type, lowerBound0, upperBound0, fault) ==
    LET index == c.numberOfVariables
        lowerBound == IF lowerBound0 < -UnboundedVariableBoundValue
                      THEN -UnboundedVariableBoundValue ELSE lowerBound0
        upperBound == IF upperBound0 > UnboundedVariableBoundValue
                      THEN UnboundedVariableBoundValue ELSE upperBound0
        discrete == type \in {"Integer", "Binary", "Semicontinuous"}
        bounded == [lower |-> lowerBound, upper |-> upperBound,
                    name |-> "", integer |-> FALSE]
        named == [bounded EXCEPT !.name = name]
    IN  IF fault = "setColumnBounds"
        THEN [cbc |-> c, returned |-> FALSE]
        ELSE IF fault = "setColName"
        THEN [cbc |-> [c EXCEPT !.columns = SetColumn(@, index, bounded)],
              returned |-> FALSE]
        ELSE IF fault = "setInteger" /\ discrete
        THEN [cbc |-> [c EXCEPT !.columns = SetColumn(@, index, named),
                                !.isProblemDiscrete = TRUE],
              returned |-> FALSE]
        ELSE [cbc |-> [c EXCEPT
                        !.columns = SetColumn(@, index,
                                        [named EXCEPT !.integer = discrete]),
                        !.isProblemDiscrete = @ \/ discrete,
                        !.variableTypes = Append(@, type),
                        !.variableNames = Append(@, name),
                        !.variableLowerBounds = Append(@, lowerBound),
                        !.variableUpperBounds = Append(@, upperBound),
                        !.numberOfVariables = @ + 1],
              returned |-> TRUE]

\* the variables of the problem are added in their order, the name of a
\* variable being its position
CbcAddVariable ==
    /\ cbc.numberOfVariables < NumCbcVariables
    /\ \E type \in VariableTypes, p \in VariableBoundPairs,
          fault \in AddVariableFaults :
            cbc' = addVariable(cbc, cbc.numberOfVariables, type, p[1], p[2], fault).cbc
    /\ UNCHANGED <<selVars, hyperplaneWaitingList, cfgVars, envVars, search, threads>>

NextCbcVariables == CbcAddVariable

SpecCbcVariables == InitCbcObjective /\ [][NextCbcVariables]_vars

\* ------------------------------------------------- the line search
\* The segment from the interior point to the exterior point is the grid
\* 0..LineScale of values of t; a bracket of this width can be halved
\* MaxLineIterations times.
RECURSIVE Pow2(_)
Pow2(n) == IF n = 0 THEN 1 ELSE 2 * Pow2(n - 1)

LineScale == Pow2(MaxLineIterations)

\* The maximum deviation of the constraint set along the segment: it
\* crosses zero at t = root with the given slope. A positive slope and a
\* root in 0..LineScale - 1 is a feasible interior and an infeasible exterior
\* point; the other cases break the invariant on entry.
LineSlopes == {-1, 1, 2}
LineRoots == -1..(LineScale + 1)

MaxDeviationAt(s, t) == s.slope * (t - s.root)

EntryInvariant(s) ==
    MaxDeviationAt(s, 0) <= 0 /\ MaxDeviationAt(s, LineScale) > 0

\* the absolute tolerances, and the relative ones as the inverse of the
\* fraction of the exterior point's deviation (0: none)
ToleranceAbsValues == {0, 1}
ToleranceRelInverses == {0, 4}

\* the termination test of a probe with the deviation dev, and a variant
\* that accepts one unit more
ConvergedLoosely(s, dev) == Abs(dev) <= s.toleranceAbs + 1

Converged(s, dev) ==
    \/ Abs(dev) <= s.toleranceAbs
    \/ /\ s.toleranceRelInverse > 0
       /\ s.toleranceRelInverse * Abs(dev) <= Abs(MaxDeviationAt(s, LineScale))

\* maxIterations is exhausted, and a variant that allows one step more
ExhaustedLate(s) == s.n > s.maxIterations

Exhausted(s) == s.n >= s.maxIterations

\* the bracket is narrowed to the probe t: it replaces the interior endpoint
\* when it is feasible and the exterior one when not; and a variant that
\* replaces the other endpoint
NarrowSwapped(s, t) ==
    IF MaxDeviationAt(s, t) <= 0 THEN [s EXCEPT !.exterior = t]
    ELSE [s EXCEPT !.interior = t]

Narrow(s, t) ==
    IF MaxDeviationAt(s, t) <= 0 THEN [s EXCEPT !.interior = t]
    ELSE [s EXCEPT !.exterior = t]

\* one bisection step of findZero: the midpoint is probed; the search ends
\* there when its deviation is within the tolerances, else the bracket is
\* narrowed
findZeroStep(s) ==
    LET t == (s.interior + s.exterior) \div 2
        s1 == [s EXCEPT !.n = @ + 1]
    IN  IF Converged(s, MaxDeviationAt(s, t))
        THEN [s1 EXCEPT !.phase = "done", !.point = t]
        ELSE Narrow(s1, t)

\* findZero returns the interior endpoint when maxIterations is exhausted
findZeroReturn(s) == [s EXCEPT !.phase = "done", !.point = s.interior]

\* findZero(interiorPoint, exteriorPoint, maxIterations, toleranceAbs,
\* toleranceRel, constraintSet, ...) is called
InitFindZero ==
    /\ NoSelector
    /\ NoCbc
    /\ NoThreads
    /\ InitCallback("cuts", TRUE, "ESH", "Linear", FALSE, FALSE, FALSE)
    /\ search \in [phase : {"run"}, slope : LineSlopes, root : LineRoots,
                    maxIterations : 1..MaxLineIterations,
                    toleranceAbs : ToleranceAbsValues,
                    toleranceRelInverse : ToleranceRelInverses,
                    interior : {0}, exterior : {LineScale}, n : {0},
                    point : {-1}]

FindZeroStep ==
    /\ search.phase = "run"
    /\ ~Exhausted(search)
    /\ search' = findZeroStep(search)
    /\ UNCHANGED <<selVars, hyperplaneWaitingList, cfgVars, envVars, cbc, threads>>

FindZeroReturn ==
    /\ search.phase = "run"
    /\ Exhausted(search)
    /\ search' = findZeroReturn(search)
    /\ UNCHANGED <<selVars, hyperplaneWaitingList, cfgVars, envVars, cbc, threads>>

NextFindZero == FindZeroStep \/ FindZeroReturn

SpecFindZero == InitFindZero /\ [][NextFindZero]_vars

\* the search is not suspended: it is pure computation
SpecFindZeroFair == SpecFindZero /\ WF_vars(NextFindZero)

\* ------------------------------------------------- threads in addLazyConstraint
\* GurobiCallback::addLazyConstraint takes no lock.  Two threads of the solver
\* invoke the callback; each is idle or at one position of
\* addLazyConstraint: "select" before the point selector's run, "begin"
\* before the loop over the waiting list, "convert" inside the loop, "clear"
\* after it.  In mode "serialized" the solver keeps its contract of one
\* callback at a time; in mode "concurrent" it does not.
ThreadIds == {1, 2}

OtherThread(t) == 3 - t

\* the hyperplane the point selector makes for the solution of an invocation
WaitingHyperplane(id) ==
    [sourceConstraintIndex |-> 1, generatedPoint |-> id,
     source |-> "MIPOptimalSolutionPoint"]

\* the solver's callback contract: in mode "serialized" a callback is invoked
\* only when no other one is executing
SingleFlight(th, t) ==
    th.mode = "serialized" => th.pc[OtherThread(t)] = "idle"

\* the vector is modified under a thread that iterates over it: its cached
\* begin and end no longer describe the vector
Invalidate(th, t, modified) ==
    IF modified /\ th.pc[OtherThread(t)] = "convert"
    THEN [th EXCEPT !.dirty[OtherThread(t)] = TRUE]
    ELSE th

\* variant of the loop's end test that stops one element early
LoopEndedEarly(snap, pos) == pos >= Len(snap)

\* the range-for loop of line 550 has reached its cached end
LoopEnded(snap, pos) == pos > Len(snap)

\* the callback is invoked on thread t (cbCalls++)
ThreadEnter(t) ==
    /\ threads.mode \in {"serialized", "concurrent"}
    /\ ~threads.crashed
    /\ threads.pc[t] = "idle"
    /\ threads.calls[t] < MaxThreadCalls
    /\ SingleFlight(threads, t)
    /\ threads' = [threads EXCEPT !.pc[t] = "select", !.calls[t] = @ + 1]
    /\ UNCHANGED <<selVars, hyperplaneWaitingList, cfgVars, envVars, cbc, search>>

\* the point selector's run pushes k hyperplanes onto the waiting list
ThreadSelect(t) ==
    /\ ~threads.crashed
    /\ threads.pc[t] = "select"
    /\ \E k \in 0..MaxThreadCuts :
        LET th == Invalidate(threads, t, k > 0)
        IN  /\ hyperplaneWaitingList' =
                    hyperplaneWaitingList
                    \o [i \in 1..k |-> WaitingHyperplane(threads.nextId + i - 1)]
            /\ threads' = [th EXCEPT !.pc[t] = "begin",
                                     !.nextId = @ + k,
                                     !.converted = @ \o [i \in 1..k |-> 0]]
    /\ UNCHANGED <<selVars, cfgVars, envVars, cbc, search>>

\* the loop starts: begin() and end() of the waiting list are taken
ThreadBegin(t) ==
    /\ ~threads.crashed
    /\ threads.pc[t] = "begin"
    /\ threads' = [threads EXCEPT !.pc[t] = "convert",
                                  !.snap[t] = hyperplaneWaitingList,
                                  !.pos[t] = 1,
                                  !.dirty[t] = FALSE]
    /\ UNCHANGED <<selVars, hyperplaneWaitingList, cfgVars, envVars, cbc, search>>

\* createHyperplane(hp) for the element the iterator is at.  When the other
\* thread has modified the vector since begin(), the read is through an
\* invalidated iterator: it yields the element that was there, or the
\* process crashes.
ThreadConvert(t) ==
    /\ ~threads.crashed
    /\ threads.pc[t] = "convert"
    /\ ~LoopEnded(threads.snap[t], threads.pos[t])
    /\ LET id == threads.snap[t][threads.pos[t]].generatedPoint
       IN  \/ threads' = [threads EXCEPT !.converted[id] = @ + 1,
                                         !.pos[t] = @ + 1]
           \/ /\ threads.dirty[t]
              /\ threads' = [threads EXCEPT !.crashed = TRUE]
    /\ UNCHANGED <<selVars, hyperplaneWaitingList, cfgVars, envVars, cbc, search>>

\* the loop ends
ThreadLoopEnd(t) ==
    /\ ~threads.crashed
    /\ threads.pc[t] = "convert"
    /\ LoopEnded(threads.snap[t], threads.pos[t])
    /\ threads' = [threads EXCEPT !.pc[t] = "clear"]
    /\ UNCHANGED <<selVars, hyperplaneWaitingList, cfgVars, envVars, cbc, search>>

\* hyperplaneWaitingList.clear(), and the callback returns
ThreadClear(t) ==
    /\ ~threads.crashed
    /\ threads.pc[t] = "clear"
    /\ LET th == Invalidate(threads, t, hyperplaneWaitingList # <<>>)
       IN  threads' =
            [th EXCEPT !.pc[t] = "idle",
                       !.cleared = @ \cup {hyperplaneWaitingList[i].generatedPoint :
                                                i \in 1..Len(hyperplaneWaitingList)}]
    /\ hyperplaneWaitingList' = <<>>
    /\ UNCHANGED <<selVars, cfgVars, envVars, cbc, search>>

InitThreads ==
    /\ NoSelector
    /\ NoCbc
    /\ NoSearch
    /\ InitCallback("cuts", TRUE, "ECP", "Linear", FALSE, FALSE, FALSE)
    /\ \E mode \in {"serialized", "concurrent"} :
        threads = [mode |-> mode,
                   pc |-> <<"idle", "idle">>,
                   calls |-> <<0, 0>>,
                   snap |-> <<<<>>, <<>>>>,
                   pos |-> <<1, 1>>,
                   dirty |-> <<FALSE, FALSE>>,
                   nextId |-> 1,
                   converted |-> <<>>,
                   cleared |-> {},
                   crashed |-> FALSE]

NextThreads ==
    \E t \in ThreadIds :
        \/ ThreadEnter(t)
        \/ ThreadSelect(t)
        \/ ThreadBegin(t)
        \/ ThreadConvert(t)
        \/ ThreadLoopEnd(t)
        \/ ThreadClear(t)

SpecThreads == InitThreads /\ [][NextThreads]_vars

\* ------------------------------------------------- properties
\* the (point, constraint) pairs of solPts in the order run visits them,
\* from point i on
RECURSIVE VisitOrder(_, _)
VisitOrder(solPts, i) ==
    IF i > Len(solPts) THEN <<>>
    ELSE [j \in 1..Len(solPts[i].mostDev) |-> <<i, j>>] \o VisitOrder(solPts, i + 1)

\* those of them whose constraint value is not negative
Eligible(solPts) ==
    SelectSeq(VisitOrder(solPts, 1),
              LAMBDA p : solPts[p[1]].mostDev[p[2]].value >= 0)

\* C1: one run of the ECP point selector appends at most
\* MaxHyperplanesPerIteration hyperplanes: they are those of the first
\* non-negative (point, constraint) pairs in visiting order, and once the
\* cap is reached nothing is enqueued for the remaining constraints and points.
C1_SelectorCap ==
    selPc = "done" =>
        LET eligible == Eligible(solPoints)
            n == Len(hyperplaneWaitingList)
        IN  /\ n <= MaxHyperplanesPerIteration
            /\ n = Min2(Len(eligible), MaxHyperplanesPerIteration)
            /\ \A k \in 1..n :
                LET pt == solPoints[eligible[k][1]]
                IN  /\ hyperplaneWaitingList[k].generatedPoint = pt.point
                    /\ hyperplaneWaitingList[k].sourceConstraintIndex
                         = pt.mostDev[eligible[k][2]].idx

\* a run that met more non-negative pairs than the cap allows
C1_CapReached ==
    /\ selPc = "done"
    /\ Len(Eligible(solPoints)) > MaxHyperplanesPerIteration
    /\ Len(hyperplaneWaitingList) = MaxHyperplanesPerIteration

\* C2: over any sequence of callback events the recorded bounds never
\* worsen: for minimization the dual bound does not decrease and the primal
\* bound does not increase, and the reverse for maximization.
C2_BoundsNeverWorsen ==
    [][IF isMinimization
       THEN dualBound' >= dualBound /\ primalBound' <= primalBound
       ELSE dualBound' <= dualBound /\ primalBound' >= primalBound]_vars

\* both bounds are recorded and the solver can still report a worse and a
\* better value of each; the primal searches offer candidates too
C2_BoundsRecorded ==
    /\ usePrimalSearch
    /\ 0 < dualBound /\ dualBound < MaxObj
    /\ 0 < primalBound /\ primalBound < MaxObj

\* C3: for a minimization problem the recorded dual bound is at most the
\* recorded primal bound (up to the gap tolerance) in every state the
\* callback's bound updates reach.
C3_DualAtMostPrimal ==
    isMinimization => dualBound <= primalBound + AbsoluteGapTolerance

\* C4: an integer-feasible-solution event whose candidate has a maximum
\* normalized deviation of at most ConstraintTolerance generates no
\* hyperplane: no selector run, no lazy constraint, the waiting list and the
\* hyperplane counters as they were.
C4_WithinToleranceNoCut ==
    \A in \in SolutionReports :
        in.point.maxDeviation <= ConstraintTolerance =>
            LET r == callback(Env, "MIPSOL", in)
                old == getCurrentIteration(Env)
                new == getCurrentIteration(r)
            IN  /\ r.cb.selectorRuns = 0
                /\ r.cb.objPassRuns = 0
                /\ r.cb.enqueued = 0
                /\ r.cb.lazyAdded = <<>>
                /\ r.hyperplaneWaitingList = hyperplaneWaitingList
                /\ SubSeq(r.iterations, 1, Len(iterations)) = iterations
                /\ new.totNumHyperplanes = old.totNumHyperplanes
                /\ new.numHyperplanesAdded =
                     IF Len(r.iterations) > Len(iterations) THEN 0
                     ELSE old.numHyperplanesAdded

\* the deviation of a candidate at the tolerance, which the point selector
\* would linearize, is compared
C4_CandidateAtTolerance ==
    \E in \in SolutionReports :
        /\ in.point.maxDeviation = ConstraintTolerance
        /\ in.point.mostDev # <<>>
        /\ callback(Env, "MIPSOL", in).cb.devEvaluated

\* C5: in a relaxation-node event under the cap of relaxation-node cuts, the
\* hyperplanes selected for the relaxation point are lazy constraints of the
\* solver when the invocation returns.
C5_NodeCutsInjected ==
    \A in \in NodeInputs :
        LET r == callback(Env, "MIPNODE", in)
        IN  r.cb.enqueued > 0 => Len(r.cb.lazyAdded) = r.cb.enqueued

\* C6: whenever a callback invocation has returned, the hyperplane waiting
\* list is empty.
C6_WaitingListEmptyOnReturn == hyperplaneWaitingList = <<>>

C8_NoCutsAfterTermination ==
    abortRequested =>
        \A where \in Events : \A in \in Inputs(where) :
            LET r == callback(Env, where, in)
            IN  r.cb.enqueued = 0 /\ r.cb.lazyAdded = <<>>

\* the hyperplanes the point selectors put on the waiting list
SelectedHyperplanes ==
    [sourceConstraintIndex : ConstraintIds, generatedPoint : {1, -1},
     source : {"MIPOptimalSolutionPoint"}]

\* C9: createHyperplane discards a hyperplane one of whose coefficients is
\* NaN: no lazy constraint is added and numHyperplanesAdded and
\* totNumHyperplanes stay; so no lazy constraint of an event has a NaN
\* coefficient and the counters count the lazy constraints added.
C9_NaNDiscardsHyperplane ==
    /\ \A hp \in SelectedHyperplanes, fault \in Faults :
        LET s == [Env EXCEPT !.cb = NewCb("MIPSOL", Env)]
            terms == createHyperplaneTerms(hp, fault).terms
        IN  (\E i \in 1..Len(terms) : terms[i] = "NaN")
            => createHyperplane(s, hp, fault) = s
    /\ \A in \in SolutionInputs :
        LET r == callback(Env, "MIPSOL", in)
            added == SelectSeq(r.cb.lazyAdded, LAMBDA c : c.source # "IntegerCut")
            old == getCurrentIteration(Env)
            new == getCurrentIteration(r)
        IN  /\ \A k \in 1..Len(added) : \A i \in 1..Len(added[k].terms) :
                    added[k].terms[i] # "NaN"
            /\ new.totNumHyperplanes = old.totNumHyperplanes + Len(added)
            /\ new.numHyperplanesAdded =
                 Len(added) + (IF Len(r.iterations) > Len(iterations) THEN 0
                               ELSE old.numHyperplanesAdded)

\* of two hyperplanes of an event one has a NaN coefficient and is
\* discarded, the other is added
C9_OneOfTwoDiscarded ==
    \E in \in SolutionInputs :
        LET r == callback(Env, "MIPSOL", in)
        IN  /\ in.fault.kind \in {"nanFirst", "nanLast"}
            /\ r.cb.enqueued = 2
            /\ Len(r.cb.lazyAdded) = 1

\* C10: the objective-linearization pass is run in a cut generation exactly
\* when the objective's classification is above Quadratic, under ESH and
\* under ECP; it is never run otherwise, and never without its task object.
C10_ObjectivePassIffAboveQuadratic ==
    \A where \in BoundEvents : \A in \in Inputs(where) :
        LET r == callback(Env, where, in)
        IN  /\ ~r.cb.nullTask
            /\ r.cb.objPassRuns > 0 => AboveQuadratic(classification)
            /\ (where = "MIPSOL" /\ r.cb.selectorRuns > 0)
               => (r.cb.objPassRuns = 1 <=> AboveQuadratic(classification))

\* a cut generation under ESH whose objective pass adds a hyperplane of the
\* objective
C10_ObjectivePassRun ==
    /\ cutStrategy = "ESH"
    /\ \E in \in SolutionInputs :
        LET r == callback(Env, "MIPSOL", in)
        IN  /\ r.cb.objPassRuns = 1
            /\ \E k \in 1..Len(r.cb.lazyAdded) :
                    r.cb.lazyAdded[k].sourceConstraintIndex = 0

\* C11: every hyperplane added as a lazy constraint is recorded in the
\* ledger of generated hyperplanes with a fresh row identifier: after k
\* successful insertions the ledger holds k entries with pairwise distinct
\* generatedConstraintIndex.
C11_LedgerRecordsEveryCut ==
    /\ Len(generatedHyperplanes) = getCurrentIteration(Env).totNumHyperplanes
    /\ \A i, j \in 1..Len(generatedHyperplanes) :
            i # j => generatedHyperplanes[i].generatedConstraintIndex
                       # generatedHyperplanes[j].generatedConstraintIndex
    /\ \A in \in SolutionInputs :
        LET r == callback(Env, "MIPSOL", in)
        IN  \A i, j \in 1..Len(r.cb.generated) :
                i # j => r.cb.generated[i].generatedConstraintIndex
                           # r.cb.generated[j].generatedConstraintIndex

\* C12: the row identifiers returned by addLinearConstraint are strictly
\* increasing in call order, so never reused, also when an insertion raises
\* a solver error.
C12_RowIdsStrictlyIncrease ==
    \A i, j \in 1..Len(cbc.returned) :
        i < j => cbc.returned[i] < cbc.returned[j]

\* the source constraints of the hyperplanes among the lazy constraints
AddedSources(lazyAdded) ==
    LET added == SelectSeq(lazyAdded, LAMBDA c : c.source # "IntegerCut")
    IN  [k \in 1..Len(added) |-> added[k].sourceConstraintIndex]

\* the source constraints the point selector enqueues for one point: its
\* non-negative constraints in the order returned, up to the cap
SelectedSources(pt) ==
    LET eligible == Eligible(<<pt>>)
    IN  [k \in 1..Min2(Len(eligible), MaxHyperplanesPerIteration) |->
            pt.mostDev[eligible[k][2]].idx]

\* C13: within one invocation the lazy constraints are added in the order
\* in which the hyperplanes were enqueued: those already waiting, then the
\* point's constraints in the order returned for it, then the hyperplanes of
\* the objective.
C13_LazyOrderIsEnqueueOrder ==
    \A in \in SolutionInputs :
        LET r == callback(Env, "MIPSOL", in)
        IN  r.cb.selectorRuns > 0 =>
                AddedSources(r.cb.lazyAdded)
                  = [k \in 1..Len(hyperplaneWaitingList) |->
                        hyperplaneWaitingList[k].sourceConstraintIndex]
                    \o SelectedSources(in.point)
                    \o [k \in 1..r.cb.objPassRuns * in.objCuts |-> 0]

\* an invocation that adds a waiting hyperplane, two of its point and one
\* of the objective
C13_FourInOrder ==
    \E in \in SolutionInputs :
        LET r == callback(Env, "MIPSOL", in)
        IN  /\ hyperplaneWaitingList # <<>>
            /\ Len(SelectedSources(in.point)) = 2
            /\ r.cb.objPassRuns * in.objCuts = 1
            /\ Len(r.cb.lazyAdded) >= 4

\* the number of non-negative pairs among the first q - 1 pairs visited
NonNegativeBefore(solPts, q) ==
    LET order == VisitOrder(solPts, 1)
    IN  Cardinality({k \in 1..(q - 1) :
                        solPts[order[k][1]].mostDev[order[k][2]].value >= 0})

\* the waiting list holds a hyperplane of the pair p, with the constraint's
\* index and the point's coordinates
Enqueued(solPts, p) ==
    \E k \in 1..Len(hyperplaneWaitingList) :
        /\ hyperplaneWaitingList[k].generatedPoint = solPts[p[1]].point
        /\ hyperplaneWaitingList[k].sourceConstraintIndex
             = solPts[p[1]].mostDev[p[2]].idx

\* C14: while the cap is not reached, the ECP point selector enqueues a
\* hyperplane for a (point, constraint) pair exactly when the constraint's
\* value is not negative, zero included; negative pairs do not count toward
\* the cap; the hyperplane carries the constraint's index and the point.
C14_EnqueuedIffNotNegative ==
    selPc = "done" =>
        LET order == VisitOrder(solPoints, 1)
        IN  \A q \in 1..Len(order) :
                LET value == solPoints[order[q][1]].mostDev[order[q][2]].value
                IN  /\ NonNegativeBefore(solPoints, q) < MaxHyperplanesPerIteration
                       => (Enqueued(solPoints, order[q]) <=> value >= 0)
                    /\ value < 0 => ~Enqueued(solPoints, order[q])

\* a run that skips a negative pair, enqueues a pair of value zero and
\* reaches the cap with a pair visited after more pairs than the cap
C14_SkippedAndZero ==
    /\ selPc = "done"
    /\ Len(hyperplaneWaitingList) = MaxHyperplanesPerIteration
    /\ LET order == VisitOrder(solPoints, 1)
       IN  \E q1, q2, q3 \in 1..Len(order) :
            /\ q1 < q3 /\ q3 > MaxHyperplanesPerIteration
            /\ solPoints[order[q1][1]].mostDev[order[q1][2]].value < 0
            /\ solPoints[order[q2][1]].mostDev[order[q2][2]].value = 0
            /\ Enqueued(solPoints, order[q2])
            /\ Enqueued(solPoints, order[q3])

\* the tag run gives the i-th point of its list
ExpectedSource(i, isMILP) ==
    CASE isMILP /\ i = 1 -> "MIPOptimalSolutionPoint"
      [] isMILP /\ i > 1 -> "MIPSolutionPoolSolutionPoint"
      [] OTHER           -> "LPRelaxedSolutionPoint"

\* C15: the source tag of an enqueued hyperplane tells where its point came
\* from: the first point of a MIP iteration, a later point of its solution
\* pool, or an LP relaxation; the node relaxation of a relaxation-node event
\* is tagged LPRelaxedSolutionPoint.
C15_SourceTagTellsOrigin ==
    /\ selPc = "done" =>
        LET eligible == Eligible(solPoints)
        IN  \A k \in 1..Len(hyperplaneWaitingList) :
                hyperplaneWaitingList[k].source
                  = ExpectedSource(eligible[k][1], iterIsMILP)
    /\ \A in \in NodeInputs :
        LET r == callback(Env, "MIPNODE", in)
        IN  \A k \in (Len(hyperplaneWaitingList) + 1)..Len(r.hyperplaneWaitingList) :
                r.hyperplaneWaitingList[k].source = "LPRelaxedSolutionPoint"

\* C16: a tie updates nothing: when the solver reports a dual bound equal to
\* the recorded one, the callback submits no dual candidate and the dual
\* bound stays; when it reports a solution objective equal to the recorded
\* primal bound, it submits no primal candidate for it and the primal bound
\* stays.
C16_TieSubmitsNothing ==
    /\ \A where \in BoundEvents : \A in \in Inputs(where) :
        in.objBnd = dualBound =>
            LET r == callback(Env, where, in)
            IN  r.cb.dualCandidates = 0 /\ r.dualBound = dualBound
    /\ \A in \in SolutionInputs :
        in.obj = primalBound =>
            LET r == callback(Env, "MIPSOL", in)
            IN  /\ r.cb.primalCandidates = 0
                /\ in.candidates = <<>> => r.primalBound = primalBound

\* an integer-feasible-solution event reports both recorded bounds again
C16_BothTied ==
    \E in \in SolutionInputs :
        /\ in.objBnd = dualBound
        /\ in.obj = primalBound
        /\ callback(Env, "MIPSOL", in).cb.checked

\* C17: a polling, presolve, simplex, message or barrier event changes no
\* state: the bounds, the iteration ledger, the waiting list, the node
\* counters, the cutoff and all the rest are after the event as before it.
C17_IgnoredEventsChangeNothing ==
    \A where \in IgnoredEvents :
        LET r == callback(Env, where, DefaultIn)
        IN  /\ [r EXCEPT !.cb = <<>>] = Env
            /\ r.cb = NewCb(where, Env)

\* such an event arrives when bounds, a closed iteration, node counts, a
\* cutoff and a waiting hyperplane are there
C17_StateToKeep ==
    /\ IsFinite(dualBound) /\ IsFinite(primalBound)
    /\ Len(iterations) > 1
    /\ lastExploredNodes > 0 /\ numberOfExploredNodes > 0
    /\ cutoff # GRB_INFINITY
    /\ hyperplaneWaitingList # <<>>

\* C18: an integer-feasible-solution event that gets past the termination
\* check of line 171 creates a new iteration exactly when the current one is
\* closed (isSolved), and creates one only; so every iteration but the most
\* recently created one is closed.
C18_NewIterationIffClosed ==
    /\ \A in \in Inputs("MIPSOL") :
           LET r == callback(Env, "MIPSOL", in)
           IN  /\ Len(r.iterations) \in {Len(iterations), Len(iterations) + 1}
               /\ ~callbackBounds(Env, "MIPSOL", in).cb.aborted =>
                     (Len(r.iterations) = Len(iterations) + 1
                        <=> getCurrentIteration(Env).isSolved)
    /\ \A i \in 1..(Len(iterations) - 1) : iterations[i].isSolved

\* an iteration was opened after a closed one and is still open
C18_OpenAfterClosed ==
    /\ Len(iterations) > 1
    /\ iterations[1].isSolved
    /\ ~getCurrentIteration(Env).isSolved

\* C18 as stated: every integer-feasible-solution event creates a new
\* iteration exactly when the current one is closed.
C18_EveryEventOpensWhenClosed ==
    \A in \in Inputs("MIPSOL") :
        Len(callback(Env, "MIPSOL", in).iterations) = Len(iterations) + 1
            <=> getCurrentIteration(Env).isSolved

\* C19: an integer-feasible-solution event that returns without an abort
\* leaves the current iteration closed (isSolved).
C19_SolutionEventClosesIteration ==
    \A in \in Inputs("MIPSOL") :
        LET r == callback(Env, "MIPSOL", in)
        IN  ~r.cb.aborted => getCurrentIteration(r).isSolved

\* the source constraints an invocation with the candidate pt converts:
\* those waiting, then those of the point, then the objective's
FlushedSources(pt, objective) ==
    [k \in 1..Len(hyperplaneWaitingList) |->
        hyperplaneWaitingList[k].sourceConstraintIndex]
      \o SelectedSources(pt)
      \o [k \in 1..objective |-> 0]

\* C20: an error of the solver while one cut is inserted skips that cut
\* only: the other hyperplanes of the waiting list are converted in the same
\* flush, in their order; the failed cut is not counted in
\* numHyperplanesAdded; the waiting list is empty afterwards; and the event
\* goes on to close the iteration.
C20_SolverErrorSkipsOneCut ==
    \A in \in SolutionInputs :
        LET r == callback(Env, "MIPSOL", in)
            flushed == FlushedSources(in.point, r.cb.objPassRuns * in.objCuts)
            kept == SelectSeq(flushed, LAMBDA c : c # in.fault.idx)
            old == getCurrentIteration(Env)
            new == getCurrentIteration(r)
        IN  (in.fault.kind = "throws" /\ r.cb.selectorRuns > 0) =>
                /\ AddedSources(r.cb.lazyAdded) = kept
                /\ new.numHyperplanesAdded =
                     Len(kept) + (IF Len(r.iterations) > Len(iterations) THEN 0
                                  ELSE old.numHyperplanesAdded)
                /\ r.hyperplaneWaitingList = <<>>
                /\ new.isSolved

\* the insertion of the first hyperplane of a flush, one that was waiting,
\* fails and a later one is converted
C20_FirstFailsLaterAdded ==
    \E in \in SolutionInputs :
        LET r == callback(Env, "MIPSOL", in)
            flushed == FlushedSources(in.point, r.cb.objPassRuns * in.objCuts)
        IN  /\ in.fault.kind = "throws"
            /\ r.cb.selectorRuns > 0
            /\ hyperplaneWaitingList # <<>>
            /\ Len(flushed) >= 2
            /\ flushed[1] = in.fault.idx
            /\ r.cb.lazyAdded # <<>>

\* C21: solveProblem always returns a status: an exception of any of its
\* solves, the re-solves of the retry paths too, is reported as status Error
\* and does not leave solveProblem.
C21_SolveAlwaysReturnsStatus ==
    \A outcomes \in OutcomeLists :
        LET r == solveProblem(cbc, outcomes)
        IN  /\ ~r.propagated
            /\ r.status \in SolutionStatuses
            /\ (\E k \in 1..r.solves : outcomes[k] = "throws") => r.status = "Error"

\* C22: when solveProblem takes the unboundedness retry, on return the
\* solver's bounds of every variable, the auxiliary objective variable too,
\* are those before the call.
C22_RetryRestoresBounds ==
    \A outcomes \in OutcomeLists :
        LET r == solveProblem(cbc, outcomes)
        IN  r.retried => r.colBounds = cbc.colBounds

\* the rows added after the problem's own, by their (0-based) index
AddedRows(c) == {i \in 0..(getNumRows(c) - 1) : i >= c.numOrigConstraints}

\* the row i is a generated hyperplane whose source is not convex
NonConvexHyperplaneRow(c, i) ==
    \E k \in 1..Len(c.generatedHyperplanes) :
        /\ c.generatedHyperplanes[k].generatedConstraintIndex = i
        /\ ~c.generatedHyperplanes[k].isSourceConvex

\* C23: in whatever order hyperplanes of convex and of non-convex sources,
\* integer cuts and the cutoff row were added, repairInfeasibility gives a
\* row a penalized slack column if and only if the row is a generated
\* hyperplane with isSourceConvex = false.
C23_RelaxesNonConvexCutsOnly ==
    \A outcome \in SolveOutcomes, slack \in SlackLists :
        LET r == repairInfeasibility(cbc, outcome, slack)
        IN  (Len(cbc.generatedHyperplanes) > 0 /\ outcome # "throws") =>
                /\ ~r.threw
                /\ \A i \in AddedRows(cbc) :
                      (\E k \in 1..Len(r.relaxed) : r.relaxed[k] = i)
                          <=> NonConvexHyperplaneRow(cbc, i)

UserTerminationRequested(s) == IsFinite(s.primalBound)

\* C25: with a user callback that requests termination as soon as the first
\* primal solution exists, the search records no further primal solution: an
\* event that arrives when the request is made and no abort was asked for
\* by the callback itself records none.
C25_OnePrimalSolutionWhenUserTerminates ==
    \A in \in Inputs("MIPSOL") :
        LET r == callback(Env, "MIPSOL", in)
        IN  (UserTerminationRequested(Env) /\ ~abortRequested) =>
                /\ r.cb.primalCandidates = 0
                /\ r.primalBound = primalBound

\* C26: findZero terminates for every input, also when the invariant on
\* entry does not hold: it makes at most maxIterations narrowing steps and
\* then returns, and the point returned lies on the segment between the
\* interior and the exterior point.
C26_FindZeroTerminates ==
    /\ <>(search.phase = "done")
    /\ [](/\ search.n <= search.maxIterations
          /\ search.phase = "done" => search.point \in 0..LineScale)

\* a search whose entry invariant does not hold has returned after
\* maxIterations steps
C26_ReturnedWithoutInvariant ==
    /\ search.phase = "done"
    /\ ~EntryInvariant(search)
    /\ search.n = search.maxIterations
    /\ search.n > 1

\* C27: in a findZero started from a feasible interior and an infeasible
\* exterior point, after every narrowing step the interior endpoint has
\* non-positive deviation, the exterior endpoint has positive deviation, and
\* the bracket is strictly narrower than before the step.
C27_BracketKept ==
    [][(EntryInvariant(search) /\ search'.phase = "run") =>
          /\ MaxDeviationAt(search', search'.interior) <= 0
          /\ MaxDeviationAt(search', search'.exterior) > 0
          /\ search'.exterior - search'.interior
               < search.exterior - search.interior]_vars

\* both endpoints of the bracket have moved
C27_BothEndpointsMoved ==
    /\ search.phase = "run"
    /\ EntryInvariant(search)
    /\ search.interior > 0
    /\ search.exterior < LineScale

\* the deviation is within the absolute or the relative tolerance of zero
WithinLineTolerance(s, dev) ==
    \/ Abs(dev) <= s.toleranceAbs
    \/ /\ s.toleranceRelInverse > 0
       /\ s.toleranceRelInverse * Abs(dev) <= Abs(MaxDeviationAt(s, LineScale))

C29_ImprovedPrimalInjected ==
    \A in \in Inputs("MIPSOL") :
        LET r == callback(Env, "MIPSOL", in)
        IN  (/\ ~r.cb.aborted
             /\ r.cb.selectorRuns > 0
             /\ BetterPrimal(r.primalBound, lastUpdatedPrimal))
                => /\ r.cb.injected
                   /\ r.lastUpdatedPrimal = r.primalBound

\* the lazy constraints of an event that createHyperplane added
HyperplanesAdded(r) ==
    Len(SelectSeq(r.cb.lazyAdded, LAMBDA c : c.source # "IntegerCut"))

\* the hyperplane counters of the current iteration after an event that
\* added n counted lazy constraints
CountersRaisedBy(r, n) ==
    LET old == getCurrentIteration(Env)
        new == getCurrentIteration(r)
    IN  /\ new.totNumHyperplanes = old.totNumHyperplanes + n
        /\ new.numHyperplanesAdded =
             n + (IF Len(r.iterations) > Len(iterations) THEN 0
                  ELSE old.numHyperplanesAdded)
        /\ SubSeq(r.iterations, 1, Len(iterations) - 1)
             = SubSeq(iterations, 1, Len(iterations) - 1)
        /\ Len(r.iterations) > Len(iterations) =>
                r.iterations[Len(iterations)].numHyperplanesAdded
                    = old.numHyperplanesAdded

\* C30: the hyperplane statistics count exactly the hyperplane cuts that
\* were inserted: every event raises numHyperplanesAdded of the current
\* iteration and totNumHyperplanes by the number of lazy constraints that
\* createHyperplane added in it and leaves numHyperplanesAdded of the other
\* iterations alone, each insertion by createHyperplane raises both by one,
\* and after any sequence of events totNumHyperplanes of an iteration is the
\* sum of numHyperplanesAdded up to it; the integer cuts, which are lazy
\* constraints too, are not counted.
C30_CountersCountHyperplanes ==
    /\ \A where \in BoundEvents : \A in \in Inputs(where) :
            LET r == callback(Env, where, in)
            IN  CountersRaisedBy(r, HyperplanesAdded(r))
    /\ \A hp \in SelectedHyperplanes, fault \in Faults :
            LET s == [Env EXCEPT !.cb = NewCb("MIPSOL", Env)]
                r == createHyperplane(s, hp, fault)
            IN  /\ Len(r.cb.lazyAdded) \in {0, 1}
                /\ CountersRaisedBy(r, Len(r.cb.lazyAdded))
    /\ iterations[1].totNumHyperplanes = iterations[1].numHyperplanesAdded
    /\ \A k \in 2..Len(iterations) :
            iterations[k].totNumHyperplanes
                = iterations[k - 1].totNumHyperplanes
                  + iterations[k].numHyperplanesAdded

\* an event of an iteration that counts a hyperplane already inserts a
\* hyperplane and an integer cut
C30_HyperplaneAndIntegerCut ==
    /\ getCurrentIteration(Env).numHyperplanesAdded > 0
    /\ \E in \in SolutionInputs :
            LET r == callback(Env, "MIPSOL", in)
            IN  /\ HyperplanesAdded(r) > 0
                /\ Len(r.cb.lazyAdded) > HyperplanesAdded(r)

\* the statement that counts every lazy constraint, the integer cuts too
C30_CountersCountLazyConstraints ==
    \A where \in BoundEvents : \A in \in Inputs(where) :
        LET r == callback(Env, where, in)
        IN  CountersRaisedBy(r, Len(r.cb.lazyAdded))

\* a hyperplane has been converted twice
ConvertedTwice ==
    \E id \in 1..Len(threads.converted) : threads.converted[id] >= 2

\* a hyperplane has been cleared from the waiting list and never converted
ClearedUnconverted ==
    \E id \in threads.cleared : threads.converted[id] = 0

\* C31: the callback takes no lock and relies on single flight: with
\* serialized invocations no hyperplane is converted twice, none is cleared
\* without being converted, and no iterator is invalidated; with two
\* invocations interleaving inside the flush such states are reachable.
C31_SerializedFlushConvertsOnce ==
    threads.mode = "serialized" =>
        /\ ~ConvertedTwice
        /\ ~ClearedUnconverted
        /\ ~threads.crashed
        /\ threads.dirty = <<FALSE, FALSE>>
        /\ (threads.pc = <<"idle", "idle">> =>
                /\ hyperplaneWaitingList = <<>>
                /\ threads.cleared = 1..Len(threads.converted))

\* two invocations have interleaved inside the flush: one hyperplane has
\* been converted twice and another cleared without being converted
C31_ConcurrentFlushLosesAndRepeats ==
    /\ threads.mode = "concurrent"
    /\ ~threads.crashed
    /\ ConvertedTwice
    /\ ClearedUnconverted

\* C32: after a successful repairInfeasibility every relaxed row with a
\* non-zero slack has as upper bound its own previous upper bound plus 1.5
\* times its own slack, and every other row keeps its upper bound, in
\* whatever order the rows of convex and of non-convex sources were added.
C32_RelaxedRowRaisedBySlack ==
    \A slack \in SlackLists :
        LET r == repairInfeasibility(cbc, "Optimal", slack)
        IN  r.returned =>
                \A i \in 0..(getNumRows(cbc) - 1) :
                    getRowUpper(r.cbc, i) =
                        IF \E k \in 1..Len(r.relaxed) :
                                r.relaxed[k] = i /\ slack[k] # 0
                        THEN LET k == CHOOSE k \in 1..Len(r.relaxed) : r.relaxed[k] = i
                             IN  getRowUpper(cbc, i) + (3 * slack[k]) \div 2
                        ELSE getRowUpper(cbc, i)

\* the objective value of a solution in the solver's minimization form
SolverForm(c, objectiveValue) ==
    IF c.isMinimizationProblem THEN objectiveValue ELSE -objectiveValue

\* C33: the cutoff that setCutOff stores never cuts off a solution whose
\* objective equals the given bound: in the solver's minimization form the
\* stored cutoff is that solution's objective plus the cutoff tolerance, for
\* minimization and for maximization; a cutOff of SHOT_DBL_MAX or
\* SHOT_DBL_MIN leaves the stored cutoff unchanged.
C33_CutOffKeepsBoundSolution ==
    cbc.finalized =>
        \A cutOff \in CutOffValues, cutOffTol \in CutOffTolerances :
            LET r == setCutOff(cbc, cutOff, cutOffTol)
            IN  IF cutOff \in {SHOT_DBL_MAX, SHOT_DBL_MIN}
                THEN r.cutOff = cbc.cutOff
                ELSE /\ r.cutOff >= SolverForm(cbc, cutOff)
                     /\ r.cutOff = SolverForm(cbc, cutOff) + cutOffTol

\* the values of the variables in a solution
VariableSolutions == [1..NumCbcVariables -> -1..1]

\* the objective as it was given: the constant and the coefficients of the
\* terms added, which the column objective holds in the original sign until
\* a maximization objective is finalized
OriginalObjective(c, constant, variableSolution) ==
    LET RECURSIVE Sum(_)
        Sum(i) == IF i > NumCbcVariables THEN 0
                  ELSE c.colObjective[i] * variableSolution[i] + Sum(i + 1)
    IN  constant + Sum(1)

\* C34: for every objective built with addLinearTermToObjective and
\* finalizeObjective(isMinimize, constant), getObjectiveValue returns the
\* value of the original objective at the solution, the constant plus the
\* sum of original coefficient times variable value, for minimization and
\* for maximization.
C34_ObjectiveValueOfOriginal ==
    ~cbc.finalized =>
        \A isMinimize \in BOOLEAN, constant \in Coefficients,
           variableSolution \in VariableSolutions :
            getObjectiveValue(finalizeObjective(cbc, isMinimize, constant),
                              variableSolution)
                = OriginalObjective(cbc, constant, variableSolution)

\* a maximization objective with a constant and two terms, whose value at
\* a solution is not zero
C34_MaximizationValue ==
    /\ cbc.finalized
    /\ ~cbc.isMinimizationProblem
    /\ cbc.objectiveOffset # 0
    /\ Len(cbc.objectiveLinearExpression) = 2
    /\ \E variableSolution \in VariableSolutions :
            getObjectiveValue(cbc, variableSolution) > 0

\* C35: in a relaxation-node event the point selector is run only while
\* relaxedLazyHyperplanesAdded of the current iteration is below
\* Relaxation.MaxLazyConstraints and only when the node's relaxation is
\* optimal; the count grows by the number of hyperplanes the event enqueued,
\* no iteration is created, and after any sequence of events the count of
\* an iteration is at most
\* Relaxation.MaxLazyConstraints - 1 + MaxHyperplanesPerIteration.
C35_RelaxedLazyCountBounded ==
    /\ \A in \in NodeInputs :
        LET r == callback(Env, "MIPNODE", in)
            old == getCurrentIteration(Env)
            new == getCurrentIteration(r)
        IN  /\ r.cb.selectorRuns > 0 =>
                    /\ in.nodeOptimal
                    /\ old.relaxedLazyHyperplanesAdded < RelaxationMaxLazyConstraints
            /\ Len(r.iterations) = Len(iterations)
            /\ new.relaxedLazyHyperplanesAdded
                    = old.relaxedLazyHyperplanesAdded + r.cb.enqueued
            /\ Len(r.hyperplaneWaitingList)
                    = Len(hyperplaneWaitingList) + r.cb.enqueued - Len(r.cb.lazyAdded)
    /\ \A k \in 1..Len(iterations) :
            iterations[k].relaxedLazyHyperplanesAdded
                <= RelaxationMaxLazyConstraints - 1 + MaxHyperplanesPerIteration

\* an iteration whose count is at the bound, above the cap, and a node
\* event with an optimal relaxation for which the selector is not run
C35_CountAtBound ==
    /\ getCurrentIteration(Env).relaxedLazyHyperplanesAdded
            = RelaxationMaxLazyConstraints - 1 + MaxHyperplanesPerIteration
    /\ RelaxationMaxLazyConstraints - 1 + MaxHyperplanesPerIteration
            > RelaxationMaxLazyConstraints
    /\ \E in \in NodeInputs :
            /\ in.nodeOptimal
            /\ in.point.maxDeviation > ConstraintTolerance
            /\ callback(Env, "MIPNODE", in).cb.selectorRuns = 0

\* the explored nodes of the iterations from k on
RECURSIVE SumExploredNodes(_, _)
SumExploredNodes(its, k) ==
    IF k > Len(its) THEN 0
    ELSE its[k].numberOfExploredNodes + SumExploredNodes(its, k + 1)

\* C36: the explored-node count recorded on an iteration is never negative
\* and the counts of the iterations sum to the node count the solver had
\* reported last when a solution event recorded them, after any sequence of
\* MIP and MIPSOL events, also across several solveProblem calls.
C36_NodeCountsAddUp ==
    /\ \A k \in 1..Len(iterations) : iterations[k].numberOfExploredNodes >= 0
    /\ SumExploredNodes(iterations, 1) = numberOfExploredNodes

\* the values of the binary variables vs
BinaryAssignments(vs) == [vs -> {0, 1}]

\* the left-hand side of a row with the given elements at x
RECURSIVE RowActivity(_, _, _)
RowActivity(elements, x, vs) ==
    IF vs = {} THEN 0
    ELSE LET I == CHOOSE I \in vs : TRUE
         IN  elements[I] * x[I] + RowActivity(elements, x, vs \ {I})

\* C37: the integer cut that createIntegerCut builds from the index sets
\* ones and zeroes is violated by exactly one assignment of those binary
\* variables, the one with every variable of ones at 1 and every variable of
\* zeroes at 0; on success the new row's index is added to integerCuts and
\* the counter of integer cuts grows by one; on a solver error the call
\* returns false and rows, integerCuts and the counter stay as they were.
C37_IntegerCutExcludesOnePoint ==
    \A p \in IntegerCutIndexes, throws \in BOOLEAN :
        LET r == createIntegerCut(cbc, p[1], p[2], throws)
            row == getNumRows(cbc)
        IN  IF throws
            THEN /\ ~r.returned
                 /\ r.cbc = cbc
            ELSE /\ r.returned
                 /\ getNumRows(r.cbc) = row + 1
                 /\ row \notin cbc.integerCuts
                 /\ r.cbc.integerCuts = cbc.integerCuts \cup {row}
                 /\ r.cbc.numberOfIntegerCuts = cbc.numberOfIntegerCuts + 1
                 /\ LET cut == r.cbc.lastIntegerCut
                    IN  /\ cut.row = row
                        /\ \A x \in BinaryAssignments(p[1] \cup p[2]) :
                              (\/ RowActivity(cut.elements, x, p[1] \cup p[2])
                                    > getRowUpper(r.cbc, row)
                               \/ RowActivity(cut.elements, x, p[1] \cup p[2])
                                    < r.cbc.rows[row + 1].lower)
                              <=> /\ \A I \in p[1] : x[I] = 1
                                  /\ \A I \in p[2] : x[I] = 0

\* an integer cut with a variable at one and a variable at zero has been
\* added after another cut
C37_CutOfOneAndZero ==
    /\ cbc.numberOfIntegerCuts > 1
    /\ cbc.lastIntegerCut.row = getNumRows(cbc) - 1
    /\ LET e == cbc.lastIntegerCut.elements
       IN  /\ \E I \in DOMAIN e : e[I] = 1
           /\ \E I \in DOMAIN e : e[I] = -1

\* C38: repairInfeasibility returns true only if it modified the dual
\* problem: whenever it returns true, the upper bound of at least one row
\* has been increased.
C38_RepairedMeansRowRaised ==
    \A outcome \in SolveOutcomes, slack \in SlackLists :
        LET r == repairInfeasibility(cbc, outcome, slack)
        IN  r.returned =>
                \E i \in 0..(getNumRows(cbc) - 1) :
                    getRowUpper(r.cbc, i) > getRowUpper(cbc, i)

\* the four lists of the variables
VariableLists(c) ==
    <<c.variableTypes, c.variableNames, c.variableLowerBounds, c.variableUpperBounds>>

\* C39: after any sequence of addVariable calls, successful or failing, the
\* lists variableTypes, variableNames, variableLowerBounds and
\* variableUpperBounds all have the length numberOfVariables; a failing call
\* changes none of them; and every stored bound lies within plus or minus
\* the unbounded-variable bound value.
C39_VariableListsAligned ==
    /\ \A k \in 1..4 : Len(VariableLists(cbc)[k]) = cbc.numberOfVariables
    /\ \A type \in VariableTypes, p \in VariableBoundPairs,
          fault \in AddVariableFaults :
            LET r == addVariable(cbc, cbc.numberOfVariables, type, p[1], p[2], fault)
            IN  ~r.returned =>
                    /\ VariableLists(r.cbc) = VariableLists(cbc)
                    /\ r.cbc.numberOfVariables = cbc.numberOfVariables
    /\ \A k \in 1..cbc.numberOfVariables :
            /\ -UnboundedVariableBoundValue <= cbc.variableLowerBounds[k]
            /\ cbc.variableLowerBounds[k] <= UnboundedVariableBoundValue
            /\ -UnboundedVariableBoundValue <= cbc.variableUpperBounds[k]
            /\ cbc.variableUpperBounds[k] <= UnboundedVariableBoundValue

====
